---------------------------- MODULE Spec2Model ----------------------------
(***************************************************************************)
(* A model of the core of bafomet (febft): sequence numbers, the TBO       *)
(* queue, the three-phase consensus state machine, the message log with    *)
(* its checkpoints, the collaborative state transfer (CST) protocol, and   *)
(* the server loop that drives them on the messages of the network.        *)
(*                                                                         *)
(* Every Rust method is an operator from the receiver's value (a record)   *)
(* to the value after the call, together with what the call returns; the   *)
(* actions of the specifications below apply these operators to the        *)
(* variables.                                                              *)
(***************************************************************************)
EXTENDS Integers, Sequences, FiniteSets, TLC

VARIABLES
    cons,      \* replica id -> Consensus<S> (with its TboQueue)
    logs,      \* replica id -> Log<S, O, P>
    net,       \* consensus messages in flight: [to, header, message]
    loop,      \* replica id -> position of the replica's event loop
    hist,      \* replica id -> what the replica has processed and broadcast
    cst,       \* CollabStateTransfer<S> of the recovering replica
    round,     \* the replies counted in the current CST round, and its outcome
    ret        \* what the last call returned

vars == <<cons, logs, net, loop, hist, cst, round, ret>>

(***************************************************************************)
(* Program constants.                                                      *)
(***************************************************************************)
I32_MAX == 2147483647
I32_MIN == (-I32_MAX) - 1
PERIOD == 1000
OVERFLOW_THRES_POS == 10000
OVERFLOW_THRES_NEG == -OVERFLOW_THRES_POS
DROP_SEQNO_THRES == PERIOD + (PERIOD \div 2)

\* Digest::from_bytes(&[0; Digest::LENGTH]), the filler of Consensus::current
ZeroDigest == 0

(***************************************************************************)
(* i32 arithmetic.  The sums are split so that no intermediate value       *)
(* leaves the i32 range.                                                   *)
(***************************************************************************)
WrappingAdd(a, b) ==
    IF b > 0 /\ a > I32_MAX - b THEN ((a - I32_MAX) + (b + I32_MIN)) - 1
    ELSE IF b < 0 /\ a < I32_MIN - b THEN ((a - I32_MIN) + (b + I32_MAX)) + 1
    ELSE a + b

WrappingSub(a, b) ==
    IF b >= 0 /\ a < I32_MIN + b THEN ((a - I32_MIN) + (I32_MAX - b)) + 1
    ELSE IF b < 0 /\ a > I32_MAX + b THEN ((a - I32_MAX) + (I32_MIN - b)) - 1
    ELSE a - b

(***************************************************************************)
(* SeqNo                                                                   *)
(***************************************************************************)
SeqNoNext(self) ==
    IF self = I32_MAX THEN 0 ELSE self + 1

\* the largest value of a signed integer of w bits (2 <= w <= 32), computed
\* within the i32 range
WidthMax(w) == (2 * ((2 ^ (w - 2)) - 1)) + 1

\* a next() that wraps one value before the largest
SeqNoNextWidthEarly(self, w) ==
    IF self >= WidthMax(w) - 1 THEN 0 ELSE self + 1

\* SeqNo::next on a signed integer of w bits: overflowing_add(1) overflows at
\* the largest value
SeqNoNextWidth(self, w) ==
    IF self = WidthMax(w) THEN 0 ELSE self + 1

Left(inv) == [tag |-> "Left", inv |-> inv, idx |-> 0]
Right(i) == [tag |-> "Right", inv |-> "None", idx |-> i]

\* an index without the guard against overflows
SeqNoIndexUnguarded(self, other) ==
    LET index == WrappingSub(self, other)
    IN  IF index < 0 \/ index > DROP_SEQNO_THRES
        THEN Left(IF index < 0 THEN "Small" ELSE "Big")
        ELSE Right(index)

SeqNoIndex(self, other) ==
    LET d == WrappingSub(self, other)
        index == IF d < OVERFLOW_THRES_NEG \/ d > OVERFLOW_THRES_POS
                 THEN WrappingAdd(WrappingAdd(I32_MAX, d), 1)
                 ELSE d
    IN  IF index < 0 \/ index > DROP_SEQNO_THRES
        THEN Left(IF index < 0 THEN "Small" ELSE "Big")
        ELSE Right(index)

\* PartialOrd for SeqNo
SeqNoPartialCmp(self, other) ==
    LET ix == SeqNoIndex(self, other)
    IN  IF ix = Right(0) THEN "Equal"
        ELSE IF ix = Left("Small") THEN "Less"
        ELSE "Greater"

SeqNoLt(self, other) == SeqNoPartialCmp(self, other) = "Less"

\* derived Ord for SeqNo: the order of the i32 inside
SeqNoCmp(self, other) ==
    IF self > other THEN "Greater" ELSE IF self = other THEN "Equal" ELSE "Less"

(***************************************************************************)
(* Messages                                                                *)
(***************************************************************************)
ConsensusMessage(seq, kind, digests) == [seq |-> seq, kind |-> kind, digests |-> digests]

Header(from) == [from |-> from]

Stored(h, m) == [header |-> h, message |-> m]

(***************************************************************************)
(* TboQueue                                                                *)
(***************************************************************************)
NoMessage == [header |-> Header(-1), message |-> ConsensusMessage(0, "None", <<>>)]

TboQueueNew(curr_seq) ==
    [curr_seq |-> curr_seq, get_queue |-> FALSE,
     pre_prepares |-> <<>>, prepares |-> <<>>, commits |-> <<>>]

PopMessage(tbo) ==
    IF Len(tbo) = 0 \/ Len(tbo[1]) = 0
    THEN [some |-> FALSE, msg |-> NoMessage, tbo |-> tbo]
    ELSE [some |-> TRUE, msg |-> Head(tbo[1]), tbo |-> [tbo EXCEPT ![1] = Tail(@)]]

\* mutant of QueueMessage: push_front in place of push_back
QueueMessagePushFront(curr_seq, tbo, h, m) ==
    LET ix == SeqNoIndex(m.seq, curr_seq)
    IN  IF ix.tag = "Left" THEN tbo
        ELSE LET ext == IF ix.idx >= Len(tbo)
                        THEN tbo \o [k \in 1..(ix.idx - Len(tbo) + 1) |-> <<>>]
                        ELSE tbo
             IN  [ext EXCEPT ![ix.idx + 1] = <<Stored(h, m)>> \o @]

QueueMessage(curr_seq, tbo, h, m) ==
    LET ix == SeqNoIndex(m.seq, curr_seq)
    IN  IF ix.tag = "Left" THEN tbo
        ELSE LET ext == IF ix.idx >= Len(tbo)
                        THEN tbo \o [k \in 1..(ix.idx - Len(tbo) + 1) |-> <<>>]
                        ELSE tbo
             IN  [ext EXCEPT ![ix.idx + 1] = Append(@, Stored(h, m))]

\* mutant of AdvanceMessageQueue: the slot is recycled without vec.clear()
AdvanceMessageQueueUncleared(tbo) ==
    IF Len(tbo) = 0 THEN tbo ELSE Append(Tail(tbo), Head(tbo))

AdvanceMessageQueue(tbo) ==
    IF Len(tbo) = 0 THEN tbo ELSE Append(Tail(tbo), <<>>)

Signal(q) == [q EXCEPT !.get_queue = TRUE]

NextInstanceQueue(q) ==
    [q EXCEPT !.curr_seq = SeqNoNext(q.curr_seq),
              !.pre_prepares = AdvanceMessageQueue(q.pre_prepares),
              !.prepares = AdvanceMessageQueue(q.prepares),
              !.commits = AdvanceMessageQueue(q.commits)]

QueuePrePrepare(q, h, m) ==
    [q EXCEPT !.pre_prepares = QueueMessage(q.curr_seq, q.pre_prepares, h, m)]

QueuePrepare(q, h, m) ==
    [q EXCEPT !.prepares = QueueMessage(q.curr_seq, q.prepares, h, m)]

QueueCommit(q, h, m) ==
    [q EXCEPT !.commits = QueueMessage(q.curr_seq, q.commits, h, m)]

Queue(q, h, m) ==
    IF m.kind = "PrePrepare" THEN QueuePrePrepare(q, h, m)
    ELSE IF m.kind = "Prepare" THEN QueuePrepare(q, h, m)
    ELSE QueueCommit(q, h, m)

(***************************************************************************)
(* Log                                                                     *)
(***************************************************************************)
\* a client request as the log stores it: StoredMessage<RequestMessage<O>>
\* under the key header.unique_digest()
StoredRequest(digest, from, operation) ==
    [digest |-> digest, from |-> from, operation |-> operation]

DecisionLogNew == [pre_prepares |-> <<>>, prepares |-> <<>>, commits |-> <<>>]

CheckpointNone == [kind |-> "None"]
CheckpointPartial(seq) == [kind |-> "Partial", seq |-> seq]
CheckpointPartialWithEarlier(seq, earlier) ==
    [kind |-> "PartialWithEarlier", seq |-> seq, earlier |-> earlier]
CheckpointComplete(checkpoint) == [kind |-> "Complete", checkpoint |-> checkpoint]

Checkpoint(seq, appstate) == [seq |-> seq, appstate |-> appstate]

LogNew(batch_size) ==
    [curr_seq |-> 0, batch_size |-> batch_size, declog |-> DecisionLogNew,
     requests |-> <<>>, deciding |-> <<>>, decided |-> <<>>,
     checkpoint |-> CheckpointNone]

\* OrderedMap<Digest, _>: a sequence of entries with distinct keys, oldest first
OrderedMapContainsKey(map, d) == \E i \in 1..Len(map) : map[i].digest = d

OrderedMapGet(map, d) == map[CHOOSE i \in 1..Len(map) : map[i].digest = d]

OrderedMapRemove(map, d) == SelectSeq(map, LAMBDA e : e.digest # d)

OrderedMapInsert(map, e) ==
    IF OrderedMapContainsKey(map, e.digest)
    THEN [i \in 1..Len(map) |-> IF map[i].digest = e.digest THEN e ELSE map[i]]
    ELSE Append(map, e)

\* HashMap<Digest, _>: a function on the digests it holds
HashMapInsert(map, e) ==
    [d \in (DOMAIN map) \cup {e.digest} |-> IF d = e.digest THEN e ELSE map[d]]

HashMapRemove(map, d) == [x \in (DOMAIN map) \ {d} |-> map[x]]

RecoveryState(view, checkpoint, requests, declog) ==
    [view |-> view, checkpoint |-> checkpoint, requests |-> requests, declog |-> declog]

LogInstallState(log, last_seq, rs) ==
    [log EXCEPT !.declog = rs.declog,
                !.decided = rs.requests,
                !.checkpoint = CheckpointComplete(rs.checkpoint),
                !.curr_seq = last_seq]

NoRecoveryState == [view |-> "None"]

\* a snapshot that is also served while a checkpoint is being taken
LogSnapshotWhilePartial(log, view) ==
    IF log.checkpoint.kind = "Complete"
    THEN [ok |-> TRUE, err |-> "None",
          rs |-> RecoveryState(view, log.checkpoint.checkpoint, log.decided, log.declog)]
    ELSE IF log.checkpoint.kind = "PartialWithEarlier"
    THEN [ok |-> TRUE, err |-> "None",
          rs |-> RecoveryState(view, log.checkpoint.earlier, log.decided, log.declog)]
    ELSE IF log.checkpoint.kind = "Partial"
    THEN [ok |-> TRUE, err |-> "None",
          rs |-> RecoveryState(view, Checkpoint(log.checkpoint.seq, 0), log.decided,
                               log.declog)]
    ELSE [ok |-> FALSE, err |-> "Log", rs |-> NoRecoveryState]

LogSnapshot(log, view) ==
    IF log.checkpoint.kind = "Complete"
    THEN [ok |-> TRUE, err |-> "None",
          rs |-> RecoveryState(view, log.checkpoint.checkpoint, log.decided, log.declog)]
    ELSE [ok |-> FALSE, err |-> "Log", rs |-> NoRecoveryState]

\* Log::insert of a SystemMessage::Request
LogInsertRequest(log, e) ==
    [log EXCEPT !.requests = OrderedMapInsert(log.requests, e)]

\* Log::insert of a SystemMessage::Consensus
LogInsertConsensus(log, h, m) ==
    IF m.kind = "PrePrepare"
    THEN [log EXCEPT !.declog.pre_prepares = Append(@, Stored(h, m))]
    ELSE IF m.kind = "Prepare"
    THEN [log EXCEPT !.declog.prepares = Append(@, Stored(h, m))]
    ELSE [log EXCEPT !.declog.commits = Append(@, Stored(h, m))]

LogHasRequest(log, d) ==
    IF d \in DOMAIN log.deciding THEN TRUE
    ELSE IF OrderedMapContainsKey(log.requests, d) THEN TRUE
    ELSE FALSE

\* the batches deciding.keys().take(batch_size) may give: the iteration
\* order of a HashMap is unspecified
TakeKeys(keys, k) ==
    IF Cardinality(keys) <= k THEN {keys}
    ELSE {s \in SUBSET keys : Cardinality(s) = k}

\* mutant of LogNextBatch: the newest pending request is moved
LogNextBatchNewest(log) ==
    IF Len(log.requests) = 0
    THEN {[log |-> log, some |-> FALSE, batch |-> {}]}
    ELSE LET e == log.requests[Len(log.requests)]
             l2 == [log EXCEPT !.requests = SubSeq(@, 1, Len(@) - 1),
                               !.deciding = HashMapInsert(@, e)]
         IN  IF Cardinality(DOMAIN l2.deciding) >= l2.batch_size
             THEN {[log |-> l2, some |-> TRUE, batch |-> b] :
                       b \in TakeKeys(DOMAIN l2.deciding, l2.batch_size)}
             ELSE {[log |-> l2, some |-> FALSE, batch |-> {}]}

\* Log::next_batch: every outcome [log, some, batch] the call may have;
\* batch is the set of digests returned (their order is the HashMap's)
LogNextBatch(log) ==
    IF Len(log.requests) = 0
    THEN {[log |-> log, some |-> FALSE, batch |-> {}]}
    ELSE LET e == Head(log.requests)
             l2 == [log EXCEPT !.requests = Tail(@),
                               !.deciding = HashMapInsert(@, e)]
         IN  IF Cardinality(DOMAIN l2.deciding) >= l2.batch_size
             THEN {[log |-> l2, some |-> TRUE, batch |-> b] :
                       b \in TakeKeys(DOMAIN l2.deciding, l2.batch_size)}
             ELSE {[log |-> l2, some |-> FALSE, batch |-> {}]}

LogBeginCheckpoint(log, seq) ==
    LET earlier == log.checkpoint
    IN  IF earlier.kind = "None"
        THEN [ok |-> TRUE, info |-> "BeginCheckpoint",
              log |-> [log EXCEPT !.checkpoint = CheckpointPartial(seq)]]
        ELSE IF earlier.kind = "Complete"
        THEN [ok |-> TRUE, info |-> "BeginCheckpoint",
              log |-> [log EXCEPT !.checkpoint =
                           CheckpointPartialWithEarlier(seq, earlier.checkpoint)]]
        \* the state was moved out by mem::replace before the match
        ELSE [ok |-> FALSE, info |-> "Err",
              log |-> [log EXCEPT !.checkpoint = CheckpointNone]]

\* u32::from(seq) % m, for negative seq too (seq as u32 is seq + 2^32)
U32Mod(seq, m) ==
    IF seq >= 0 THEN seq % m
    ELSE ((2 * (((I32_MAX % m) + 1) % m)) + (seq % m)) % m

\* mutant of FinalizeRemove: the updates are added in front of the batch
RECURSIVE FinalizeRemoveReversed(_, _, _)
FinalizeRemoveReversed(log, digests, batch) ==
    IF Len(digests) = 0 THEN [ok |-> TRUE, log |-> log, batch |-> batch]
    ELSE LET d == Head(digests)
         IN  IF d \in DOMAIN log.deciding
             THEN FinalizeRemoveReversed(
                      [log EXCEPT !.deciding = HashMapRemove(@, d)],
                      Tail(digests),
                      <<[from |-> log.deciding[d].from, digest |-> d,
                         operation |-> log.deciding[d].operation]>> \o batch)
             ELSE IF OrderedMapContainsKey(log.requests, d)
             THEN FinalizeRemoveReversed(
                      [log EXCEPT !.requests = OrderedMapRemove(@, d)],
                      Tail(digests),
                      <<[from |-> OrderedMapGet(log.requests, d).from,
                         digest |-> d,
                         operation |-> OrderedMapGet(log.requests, d).operation]>>
                          \o batch)
             ELSE [ok |-> FALSE, log |-> log, batch |-> batch]

\* the loop of finalize_batch over the digests: removes each request from
\* deciding, else from requests; stops at the first digest held by neither
RECURSIVE FinalizeRemove(_, _, _)
FinalizeRemove(log, digests, batch) ==
    IF Len(digests) = 0 THEN [ok |-> TRUE, log |-> log, batch |-> batch]
    ELSE LET d == Head(digests)
         IN  IF d \in DOMAIN log.deciding
             THEN FinalizeRemove(
                      [log EXCEPT !.deciding = HashMapRemove(@, d)],
                      Tail(digests),
                      Append(batch, [from |-> log.deciding[d].from, digest |-> d,
                                     operation |-> log.deciding[d].operation]))
             ELSE IF OrderedMapContainsKey(log.requests, d)
             THEN FinalizeRemove(
                      [log EXCEPT !.requests = OrderedMapRemove(@, d)],
                      Tail(digests),
                      Append(batch, [from |-> OrderedMapGet(log.requests, d).from,
                                     digest |-> d,
                                     operation |-> OrderedMapGet(log.requests, d).operation]))
             ELSE [ok |-> FALSE, log |-> log, batch |-> batch]

\* a finalize_batch that begins the checkpoint one instance early, on the
\* instance whose successor is divisible by PERIOD
LogFinalizeBatchOneEarly(log, digests) ==
    LET rm == FinalizeRemove(log, digests, <<>>)
    IN  IF ~rm.ok
        THEN [ok |-> FALSE, info |-> "Err", batch |-> <<>>, log |-> rm.log]
        ELSE LET l2 == [rm.log EXCEPT !.decided =
                            @ \o [i \in 1..Len(rm.batch) |-> rm.batch[i].operation]]
                 pp == l2.declog.pre_prepares
                 last_seq_no == IF Len(pp) > 0 THEN pp[Len(pp)].message.seq
                                ELSE l2.curr_seq
             IN  IF U32Mod(SeqNoNext(last_seq_no), PERIOD) = 0
                 THEN LET b == LogBeginCheckpoint(l2, last_seq_no)
                      IN  [ok |-> b.ok, info |-> b.info,
                           batch |-> IF b.ok THEN rm.batch ELSE <<>>, log |-> b.log]
                 ELSE [ok |-> TRUE, info |-> "Nil", batch |-> rm.batch, log |-> l2]

LogFinalizeBatch(log, digests) ==
    LET rm == FinalizeRemove(log, digests, <<>>)
    IN  IF ~rm.ok
        THEN [ok |-> FALSE, info |-> "Err", batch |-> <<>>, log |-> rm.log]
        ELSE LET l2 == [rm.log EXCEPT !.decided =
                            @ \o [i \in 1..Len(rm.batch) |-> rm.batch[i].operation]]
                 pp == l2.declog.pre_prepares
                 last_seq_no == IF Len(pp) > 0 THEN pp[Len(pp)].message.seq
                                ELSE l2.curr_seq
             IN  IF last_seq_no # 0 /\ U32Mod(last_seq_no, PERIOD) = 0
                 THEN LET b == LogBeginCheckpoint(l2, last_seq_no)
                      IN  [ok |-> b.ok, info |-> b.info,
                           batch |-> IF b.ok THEN rm.batch ELSE <<>>, log |-> b.log]
                 ELSE [ok |-> TRUE, info |-> "Nil", batch |-> rm.batch, log |-> l2]

LogFinalizeCheckpoint(log, appstate) ==
    IF log.checkpoint.kind \in {"None", "Complete"}
    THEN [ok |-> FALSE, log |-> log]
    ELSE LET pp == log.declog.pre_prepares
             l2 == [log EXCEPT !.checkpoint =
                        CheckpointComplete(Checkpoint(log.checkpoint.seq, appstate)),
                               !.decided = <<>>]
             l3 == IF Len(pp) > 0
                   THEN [l2 EXCEPT !.declog.pre_prepares = <<>>,
                                   !.curr_seq = pp[Len(pp)].message.seq]
                   ELSE l2
         IN  [ok |-> TRUE,
              log |-> [l3 EXCEPT !.declog.prepares = <<>>, !.declog.commits = <<>>]]

(***************************************************************************)
(* ViewInfo                                                                *)
(***************************************************************************)
ViewInfo(leader, n, f) == [leader |-> leader, n |-> n, f |-> f]

Quorum(view) == (2 * view.f) + 1

(***************************************************************************)
(* Consensus                                                               *)
(***************************************************************************)
PhaseInit == [name |-> "Init", i |-> 0]
PhasePrePreparing == [name |-> "PrePreparing", i |-> 0]
PhasePreparingRequests == [name |-> "PreparingRequests", i |-> 0]
PhasePreparing(i) == [name |-> "Preparing", i |-> i]
PhaseCommitting(i) == [name |-> "Committing", i |-> i]

ConsensusNew(initial_seq_no, batch_size) ==
    [batch_size |-> 0,
     phase |-> PhaseInit,
     missing_requests |-> <<>>,
     tbo |-> TboQueueNew(initial_seq_no),
     current |-> [i \in 1..batch_size |-> ZeroDigest]]

SequenceNumber(c) == c.tbo.curr_seq

NextInstance(c) == [c EXCEPT !.tbo = NextInstanceQueue(c.tbo)]

\* the loop of install_new_phase, while self.sequence_number() < seq_no
\* { self.next_instance() }, run for at most n iterations: the first half of
\* them, then the rest
RECURSIVE SkipAtMost(_, _, _)
SkipAtMost(c, seq_no, n) ==
    IF n = 0 \/ SequenceNumber(c) = seq_no THEN c
    ELSE IF ~SeqNoLt(SequenceNumber(c), seq_no) THEN c
    ELSE IF n = 1 THEN NextInstance(c)
    ELSE SkipAtMost(SkipAtMost(c, seq_no, n \div 2), seq_no, n - (n \div 2))

\* a sequence number that compares Less stays so for OVERFLOW_THRES_POS
\* iterations at most, unless it is further than that behind
SkipOldInstances(c, seq_no) == SkipAtMost(c, seq_no, 2 * OVERFLOW_THRES_POS)

InstallNewPhase(c, recovery_state) ==
    LET pre_prepares == recovery_state.declog.pre_prepares
        seq_no == IF Len(pre_prepares) = 0 THEN SequenceNumber(c)
                  ELSE pre_prepares[Len(pre_prepares)].message.seq
    IN  [SkipOldInstances(c, seq_no) EXCEPT !.phase = PhaseInit]

\* Consensus::propose: the consensus afterwards and the messages broadcast
\* (each to the replicas 0..n)
Propose(c, digests, view, id) ==
    IF c.phase.name # "Init" THEN [cons |-> c, out |-> <<>>]
    ELSE LET c2 == [c EXCEPT !.phase = PhasePrePreparing]
         IN  IF id # view.leader THEN [cons |-> c2, out |-> <<>>]
             ELSE [cons |-> c2,
                   out |-> <<ConsensusMessage(SequenceNumber(c), "PrePrepare", digests)>>]

PollRecv == [tag |-> "Recv", msg |-> NoMessage]
PollTryProposeAndRecv == [tag |-> "TryProposeAndRecv", msg |-> NoMessage]
PollNextMessage(msg) == [tag |-> "NextMessage", msg |-> msg]

\* extract_msg!(opt, &mut get_queue, &mut tbo.<buf>): opt sets the phase
ExtractMsg(c, buf, phase) ==
    LET p == PopMessage(c.tbo[buf])
    IN  IF p.some
        THEN [cons |-> [c EXCEPT !.tbo[buf] = p.tbo, !.phase = phase],
              status |-> PollNextMessage(p.msg)]
        ELSE [cons |-> [c EXCEPT !.tbo.get_queue = FALSE], status |-> PollRecv]

\* VecDeque::swap_remove_back, with a 0-based index
SwapRemoveBack(dq, index) ==
    IF index >= Len(dq) THEN dq
    ELSE SubSeq([dq EXCEPT ![index + 1] = dq[Len(dq)]], 1, Len(dq) - 1)

RECURSIVE DrainSwapbuf(_, _)
DrainSwapbuf(dq, swapbuf) ==
    IF Len(swapbuf) = 0 THEN dq
    ELSE DrainSwapbuf(SwapRemoveBack(dq, Head(swapbuf)), Tail(swapbuf))

\* the 0-based indices, in increasing order, of the missing requests the log holds
RECURSIVE MissingSwapbuf(_, _, _)
MissingSwapbuf(missing, log, i) ==
    IF i > Len(missing) THEN <<>>
    ELSE (IF LogHasRequest(log, missing[i]) THEN <<i - 1>> ELSE <<>>)
             \o MissingSwapbuf(missing, log, i + 1)

Poll(c, log) ==
    IF c.phase.name = "Init" /\ c.tbo.get_queue
    THEN ExtractMsg(c, "pre_prepares", PhasePrePreparing)
    ELSE IF c.phase.name = "Init"
    THEN [cons |-> c, status |-> PollTryProposeAndRecv]
    ELSE IF c.phase.name = "PrePreparing" /\ c.tbo.get_queue
    THEN ExtractMsg(c, "pre_prepares", c.phase)
    ELSE IF c.phase.name = "PreparingRequests"
    THEN LET missing == DrainSwapbuf(c.missing_requests,
                                     MissingSwapbuf(c.missing_requests, log, 1))
             c2 == [c EXCEPT !.missing_requests = missing]
         IN  IF Len(missing) = 0
             THEN ExtractMsg(c2, "prepares", PhasePreparing(0))
             ELSE [cons |-> c2, status |-> PollRecv]
    ELSE IF c.phase.name = "Preparing" /\ c.tbo.get_queue
    THEN ExtractMsg(c, "prepares", c.phase)
    ELSE IF c.phase.name = "Committing" /\ c.tbo.get_queue
    THEN ExtractMsg(c, "commits", c.phase)
    ELSE [cons |-> c, status |-> PollRecv]

StatusDeciding == [tag |-> "Deciding", digests |-> <<>>]
StatusDecided(digests) == [tag |-> "Decided", digests |-> digests]
StatusPanic == [tag |-> "Panic", digests |-> <<>>]

\* a process_message that drops the message it should queue
QueuedAndDropped(c, log, header, message) ==
    [cons |-> c, log |-> log, status |-> StatusDeciding, out |-> <<>>]

\* a message that process_message only queues
Queued(c, log, header, message) ==
    [cons |-> [c EXCEPT !.tbo = Queue(c.tbo, header, message)],
     log |-> log, status |-> StatusDeciding, out |-> <<>>]

\* the digests of self.current the log does not hold, in order
RECURSIVE MissingOf(_, _)
MissingOf(current, log) ==
    IF Len(current) = 0 THEN <<>>
    ELSE (IF LogHasRequest(log, Head(current)) THEN <<>> ELSE <<Head(current)>>)
             \o MissingOf(Tail(current), log)

\* PrePreparing, on the PrePrepare of the current sequence number
AcceptPrePrepare(c, log, header, message, view, id) ==
    LET digests == message.digests
    IN  IF Len(digests) > Len(c.current)
        \* &mut self.current[..digests.len()] is out of range
        THEN [cons |-> c, log |-> log, status |-> StatusPanic, out |-> <<>>]
        ELSE LET current == [i \in 1..Len(c.current) |->
                                 IF i <= Len(digests) THEN digests[i] ELSE c.current[i]]
                 out == IF id # view.leader
                        THEN <<ConsensusMessage(SequenceNumber(c), "Prepare", <<>>)>>
                        ELSE <<>>
                 log2 == LogInsertConsensus(log, header, message)
                 missing == c.missing_requests \o MissingOf(current, log2)
             IN  [cons |-> [c EXCEPT !.batch_size = Len(digests),
                                     !.current = current,
                                     !.missing_requests = missing,
                                     !.phase = IF Len(missing) = 0
                                               THEN PhasePreparing(0)
                                               ELSE PhasePreparingRequests],
                  log |-> log2, status |-> StatusDeciding, out |-> out]

\* a replica that commits one Prepare short of the quorum
AcceptPrepareBelowQuorum(c, log, header, message, view, id) ==
    LET i == c.phase.i + 1
        log2 == LogInsertConsensus(log, header, message)
    IN  IF i = Quorum(view) - 1
        THEN [cons |-> [c EXCEPT !.phase = PhaseCommitting(0)],
              log |-> log2, status |-> StatusDeciding,
              out |-> <<ConsensusMessage(SequenceNumber(c), "Commit", <<>>)>>]
        ELSE [cons |-> [c EXCEPT !.phase = PhasePreparing(i)],
              log |-> log2, status |-> StatusDeciding, out |-> <<>>]

\* Preparing(i), on a Prepare of the current sequence number
AcceptPrepare(c, log, header, message, view, id) ==
    LET i == c.phase.i + 1
        log2 == LogInsertConsensus(log, header, message)
    IN  IF i = Quorum(view)
        THEN [cons |-> [c EXCEPT !.phase = PhaseCommitting(0)],
              log |-> log2, status |-> StatusDeciding,
              out |-> <<ConsensusMessage(SequenceNumber(c), "Commit", <<>>)>>]
        ELSE [cons |-> [c EXCEPT !.phase = PhasePreparing(i)],
              log |-> log2, status |-> StatusDeciding, out |-> <<>>]

\* mutant of AcceptCommit: the quorum of Commits is not tested
AcceptCommitUndecided(c, log, header, message, view, id) ==
    [cons |-> [c EXCEPT !.phase = PhaseCommitting(c.phase.i + 1)],
     log |-> LogInsertConsensus(log, header, message),
     status |-> StatusDeciding, out |-> <<>>]

\* Committing(i), on a Commit of the current sequence number
AcceptCommit(c, log, header, message, view, id) ==
    LET i == c.phase.i + 1
        log2 == LogInsertConsensus(log, header, message)
    IN  IF i = Quorum(view)
        THEN [cons |-> [c EXCEPT !.phase = PhaseInit],
              log |-> log2,
              status |-> StatusDecided(SubSeq(c.current, 1, c.batch_size)),
              out |-> <<>>]
        ELSE [cons |-> [c EXCEPT !.phase = PhaseCommitting(i)],
              log |-> log2, status |-> StatusDeciding, out |-> <<>>]

\* mutant of ProcessMessage: a vote is counted whatever its sequence number
ProcessMessageAnySeq(c, log, header, message, view, id) ==
    IF c.phase.name = "PrePreparing" /\ message.kind = "PrePrepare"
    THEN AcceptPrePrepare(c, log, header, message, view, id)
    ELSE IF c.phase.name = "Preparing" /\ message.kind = "Prepare"
    THEN AcceptPrepare(c, log, header, message, view, id)
    ELSE IF c.phase.name = "Committing" /\ message.kind = "Commit"
    THEN AcceptCommit(c, log, header, message, view, id)
    ELSE Queued(c, log, header, message)

\* Consensus::process_message: the consensus and the log afterwards, the
\* status returned and the messages broadcast (each to the replicas 0..n)
ProcessMessage(c, log, header, message, view, id) ==
    IF c.phase.name = "Init" THEN Queued(c, log, header, message)
    ELSE IF c.phase.name = "PrePreparing"
    THEN IF message.kind = "PrePrepare" /\ message.seq # SequenceNumber(c)
         THEN Queued(c, log, header, message)
         ELSE IF message.kind = "PrePrepare"
         THEN AcceptPrePrepare(c, log, header, message, view, id)
         ELSE Queued(c, log, header, message)
    ELSE IF c.phase.name = "PreparingRequests" THEN Queued(c, log, header, message)
    ELSE IF c.phase.name = "Preparing"
    THEN IF message.kind = "Prepare" /\ message.seq = SequenceNumber(c)
         THEN AcceptPrepare(c, log, header, message, view, id)
         ELSE Queued(c, log, header, message)
    ELSE IF message.kind = "Commit" /\ message.seq = SequenceNumber(c)
         THEN AcceptCommit(c, log, header, message, view, id)
         ELSE Queued(c, log, header, message)

\* Consensus::install_sequence_number
InstallSequenceNumber(c, seq) ==
    LET ix == SeqNoIndex(seq, SequenceNumber(c))
        cleared == [c.tbo EXCEPT !.pre_prepares = <<>>, !.prepares = <<>>,
                                 !.commits = <<>>]
    IN  IF ix = Right(0) THEN [ok |-> TRUE, cons |-> c]
        ELSE IF ix.tag = "Left" \/ ix.idx >= Len(c.tbo.pre_prepares)
        THEN [ok |-> TRUE,
              cons |-> [c EXCEPT !.tbo = [cleared EXCEPT !.curr_seq = seq],
                                 !.phase = PhaseInit]]
        \* VecDeque::drain(..limit) panics when limit is above the length
        ELSE IF ix.idx > Len(c.tbo.prepares) \/ ix.idx > Len(c.tbo.commits)
        THEN [ok |-> FALSE, cons |-> c]
        ELSE [ok |-> TRUE,
              cons |-> [c EXCEPT
                  !.tbo.pre_prepares = SubSeq(@, ix.idx + 1, Len(@)),
                  !.tbo.prepares = SubSeq(@, ix.idx + 1, Len(@)),
                  !.tbo.commits = SubSeq(@, ix.idx + 1, Len(@)),
                  !.tbo.curr_seq = seq,
                  !.phase = PhaseInit]]

(***************************************************************************)
(* Bounds of the models                                                    *)
(***************************************************************************)
\* SpecTbo: the messages handed to the replica, and the instances it starts
MaxMsgs == 2
MaxInstances == 1

\* the view of all the specifications: n = 3f + 1 = 4, led by replica 0
TheView == ViewInfo(0, 4, 1)

\* the size of Consensus::current (the configured maximum batch size)
BatchSize == 2

Unused == <<>>

(***************************************************************************)
(* SpecTbo: one replica (id 1, not the leader) whose Consensus is called   *)
(* in any order: queue, signal, poll, process_message, next_instance.      *)
(***************************************************************************)
TboReplica == 1

\* the sequence number d instances after seq (d next()s), or before it
SeqAhead(seq, d) ==
    IF d >= 0 /\ seq > I32_MAX - d THEN (d - (I32_MAX - seq)) - 1
    ELSE seq + d

TboOffsets == {-1, 0, 1, DROP_SEQNO_THRES, DROP_SEQNO_THRES + 1}

TboMessages(curr_seq, offsets) ==
    {ConsensusMessage(SeqAhead(curr_seq, d), "PrePrepare", <<1>>) : d \in offsets}
        \cup {ConsensusMessage(SeqAhead(curr_seq, d), k, <<>>) :
                  d \in offsets, k \in {"Prepare", "Commit"}}

TboInit ==
    /\ cons = [r \in {TboReplica} |-> ConsensusNew(0, BatchSize)]
    /\ logs = [r \in {TboReplica} |->
                  LogInsertRequest(LogInsertRequest(LogNew(BatchSize),
                      StoredRequest(1, 1000, "op1")), StoredRequest(2, 1001, "op2"))]
    /\ hist = [msgs |-> 0, instances |-> 0]
    /\ ret = [op |-> "new"]
    /\ net = Unused /\ loop = Unused /\ cst = Unused /\ round = Unused

\* the last call was a poll that yielded a message, still to be processed
PolledNextMessage == ret.op = "poll" /\ ret.status.tag = "NextMessage"

TboQueue(r, from, m) ==
    /\ hist.msgs < MaxMsgs
    /\ cons' = [cons EXCEPT ![r].tbo = Queue(@, Header(from), m)]
    /\ hist' = [hist EXCEPT !.msgs = @ + 1]
    /\ ret' = [op |-> "queue", header |-> Header(from), message |-> m]
    /\ UNCHANGED <<logs, net, loop, cst, round>>

TboSignal(r) ==
    /\ cons' = [cons EXCEPT ![r].tbo = Signal(@)]
    /\ ret' = [op |-> "signal"]
    /\ UNCHANGED <<logs, hist, net, loop, cst, round>>

TboPoll(r) ==
    LET p == Poll(cons[r], logs[r])
    IN  /\ cons' = [cons EXCEPT ![r] = p.cons]
        /\ ret' = [op |-> "poll", status |-> p.status]
        /\ UNCHANGED <<logs, hist, net, loop, cst, round>>

\* process_message on a message received from the channel
TboProcess(r, from, m) ==
    LET p == ProcessMessage(cons[r], logs[r], Header(from), m, TheView, r)
    IN  /\ hist.msgs < MaxMsgs
        /\ ~PolledNextMessage
        /\ cons' = [cons EXCEPT ![r] = p.cons]
        /\ logs' = [logs EXCEPT ![r] = p.log]
        /\ hist' = [hist EXCEPT !.msgs = @ + 1]
        /\ ret' = [op |-> "process_message", header |-> Header(from), message |-> m,
                   status |-> p.status, out |-> p.out]
        /\ UNCHANGED <<net, loop, cst, round>>

\* process_message on the message poll just yielded
TboProcessPolled(r) ==
    /\ PolledNextMessage
    /\ LET msg == ret.status.msg
           p == ProcessMessage(cons[r], logs[r], msg.header, msg.message, TheView, r)
       IN  /\ cons' = [cons EXCEPT ![r] = p.cons]
           /\ logs' = [logs EXCEPT ![r] = p.log]
           /\ ret' = [op |-> "process_message", header |-> msg.header,
                      message |-> msg.message, status |-> p.status, out |-> p.out]
    /\ UNCHANGED <<hist, net, loop, cst, round>>

TboNextInstance(r) ==
    /\ hist.instances < MaxInstances
    /\ ~PolledNextMessage
    /\ cons' = [cons EXCEPT ![r] = NextInstance(@)]
    /\ hist' = [hist EXCEPT !.instances = @ + 1]
    /\ ret' = [op |-> "next_instance"]
    /\ UNCHANGED <<logs, net, loop, cst, round>>

TboNext ==
    \/ \E m \in TboMessages(cons[TboReplica].tbo.curr_seq, TboOffsets) :
           TboQueue(TboReplica, 0, m)
    \/ \E m \in TboMessages(cons[TboReplica].tbo.curr_seq, {0, 1}) :
           TboProcess(TboReplica, 2, m)
    \/ TboSignal(TboReplica)
    \/ TboPoll(TboReplica)
    \/ TboProcessPolled(TboReplica)
    \/ TboNextInstance(TboReplica)

SpecTbo == TboInit /\ [][TboNext]_vars

(***************************************************************************)
(* SpecLog: the Log of one replica, driven as the consensus and the        *)
(* executor drive it.  Instance after instance, from sequence number 0:    *)
(* a client request is inserted, then the PrePrepare of the instance, one  *)
(* Prepare and one Commit, and finalize_batch is called on the decision.   *)
(* A batch finalized with Info::BeginCheckpoint is executed with           *)
(* UpdateAndGetAppstate; the application state comes back later, at most   *)
(* MaxLag steps of the log later, and is given to finalize_checkpoint.     *)
(* snapshot may be called at any time.  The application state is the       *)
(* number of operations executed.                                          *)
(***************************************************************************)
\* how many checkpoints the run begins, and the steps an app state may lag
MaxCheckpoints == 2
MaxLag == 5

LogReplica == 1

LogLeader == 0

LogDigest == 1

LogInit ==
    /\ logs = [r \in {LogReplica} |-> LogNew(1)]
    /\ hist = [pc |-> "request", seq |-> 0, calls |-> 0, begun |-> 0, begin_seq |-> 0,
               executed |-> 0, appstate |-> <<>>, lag |-> 0, info |-> "None"]
    /\ ret = [op |-> "new"]
    /\ cons = Unused /\ net = Unused /\ loop = Unused /\ cst = Unused
    /\ round = Unused

\* no step of the instance is taken once the app state in flight is MaxLag late
LogMayStep(pc) ==
    /\ hist.pc = pc
    /\ hist.appstate = <<>> \/ hist.lag < MaxLag
    /\ hist.begun < MaxCheckpoints \/ hist.appstate # <<>>

LogLagged == [hist EXCEPT !.lag = IF hist.appstate = <<>> THEN 0 ELSE @ + 1]

LogStepRequest(r) ==
    /\ LogMayStep("request")
    /\ logs' = [logs EXCEPT ![r] =
                   LogInsertRequest(@, StoredRequest(LogDigest, 1000, hist.seq))]
    /\ hist' = [LogLagged EXCEPT !.pc = "pre_prepare"]
    /\ ret' = [op |-> "insert"]
    /\ UNCHANGED <<cons, net, loop, cst, round>>

LogStepConsensus(r, pc, kind, next) ==
    /\ LogMayStep(pc)
    /\ logs' = [logs EXCEPT ![r] =
                   LogInsertConsensus(@, Header(LogLeader),
                       ConsensusMessage(hist.seq, kind,
                           IF kind = "PrePrepare" THEN <<LogDigest>> ELSE <<>>))]
    /\ hist' = [LogLagged EXCEPT !.pc = next]
    /\ ret' = [op |-> "insert"]
    /\ UNCHANGED <<cons, net, loop, cst, round>>

LogStepFinalizeBatch(r) ==
    LET fb == LogFinalizeBatch(logs[r], <<LogDigest>>)
    IN  /\ LogMayStep("finalize_batch")
        /\ logs' = [logs EXCEPT ![r] = fb.log]
        /\ hist' = [LogLagged EXCEPT
                       !.pc = IF fb.ok THEN "request" ELSE "failed",
                       !.seq = SeqNoNext(@),
                       !.calls = @ + 1,
                       !.executed = @ + Len(fb.batch),
                       !.info = fb.info,
                       !.begun = IF fb.info = "BeginCheckpoint" THEN @ + 1 ELSE @,
                       !.begin_seq = IF fb.info = "BeginCheckpoint" THEN hist.seq ELSE @,
                       !.appstate = IF fb.info = "BeginCheckpoint"
                                    THEN <<hist.executed + Len(fb.batch)>> ELSE @]
        /\ ret' = [op |-> "finalize_batch", ok |-> fb.ok, info |-> fb.info,
                   batch |-> fb.batch]
        /\ UNCHANGED <<cons, net, loop, cst, round>>

LogStepFinalizeCheckpoint(r) ==
    /\ hist.appstate # <<>>
    /\ LET fc == LogFinalizeCheckpoint(logs[r], hist.appstate[1])
       IN  /\ logs' = [logs EXCEPT ![r] = fc.log]
           /\ ret' = [op |-> "finalize_checkpoint", ok |-> fc.ok,
                      appstate |-> hist.appstate[1]]
    /\ hist' = [hist EXCEPT !.appstate = <<>>, !.lag = 0]
    /\ UNCHANGED <<cons, net, loop, cst, round>>

LogStepSnapshot(r) ==
    /\ ret' = [op |-> "snapshot", result |-> LogSnapshot(logs[r], TheView)]
    /\ UNCHANGED <<logs, hist, cons, net, loop, cst, round>>

LogNext ==
    \/ LogStepRequest(LogReplica)
    \/ LogStepConsensus(LogReplica, "pre_prepare", "PrePrepare", "prepare")
    \/ LogStepConsensus(LogReplica, "prepare", "Prepare", "commit")
    \/ LogStepConsensus(LogReplica, "commit", "Commit", "finalize_batch")
    \/ LogStepFinalizeBatch(LogReplica)
    \/ LogStepFinalizeCheckpoint(LogReplica)
    \/ LogStepSnapshot(LogReplica)

SpecLog == LogInit /\ [][LogNext]_vars

(***************************************************************************)
(* install_recovery_state, and SpecInstall: a replica that has run a few   *)
(* instances on its own installs recovery states that peers took with      *)
(* Log::snapshot.                                                          *)
(***************************************************************************)
\* ExecutorHandle::install_state: the executor thread sets its state to the
\* checkpoint and applies the requests decided after it
ExecutorInstallState(state, after) == state + Len(after)

\* install_recovery_state: every call it makes, in the order of the code
InstallRecoveryState(recovery_state, c, log) ==
    LET consensus == InstallNewPhase(c, recovery_state)
    IN  [ok |-> TRUE,
         view |-> recovery_state.view,
         cons |-> consensus,
         executor |-> ExecutorInstallState(recovery_state.checkpoint.appstate,
                                           recovery_state.requests),
         log |-> LogInstallState(log, SequenceNumber(consensus), recovery_state)]

\* the bounds of SpecInstall: installs per run, and the instances a
\* snapshot holds after its checkpoint
MaxInstalls == 2
MaxDeclog == 2

InstallReplica == 1

\* sequence numbers the replica starts from
InstallStarts == {0, 1, PERIOD - 1}

\* checkpoints of the snapshots: one period ahead of a fresh replica, and
\* more than OVERFLOW_THRES_POS ahead of it
InstallCheckpoints == {PERIOD, 12 * PERIOD}

\* the snapshot of a log whose last checkpoint, at cseq, is Complete and
\* that has decided k instances of one request since
SnapshotAt(view, cseq, k) ==
    LET msgs(kind) == [i \in 1..k |->
            Stored(Header(view.leader),
                   ConsensusMessage(cseq + i, kind,
                       IF kind = "PrePrepare" THEN <<LogDigest>> ELSE <<>>))]
    IN  RecoveryState(view, Checkpoint(cseq, cseq + 1),
                      [i \in 1..k |-> cseq + i],
                      [pre_prepares |-> msgs("PrePrepare"),
                       prepares |-> msgs("Prepare"),
                       commits |-> msgs("Commit")])

InstallStates ==
    {SnapshotAt(v, cseq, k) : v \in {TheView, ViewInfo(1, 4, 1)},
                              cseq \in InstallCheckpoints, k \in 0..MaxDeclog}

\* the last sequence number decided in a recovery state
LastDecided(rs) ==
    IF Len(rs.declog.pre_prepares) = 0 THEN rs.checkpoint.seq
    ELSE rs.declog.pre_prepares[Len(rs.declog.pre_prepares)].message.seq

InstallInit ==
    /\ \E s \in InstallStarts :
           cons = [r \in {InstallReplica} |-> ConsensusNew(s, BatchSize)]
    /\ logs = [r \in {InstallReplica} |-> LogNew(BatchSize)]
    /\ hist = [view |-> TheView, executor |-> 0, installs |-> 0, instances |-> 0]
    /\ ret = [op |-> "new"]
    /\ net = Unused /\ loop = Unused /\ cst = Unused /\ round = Unused

InstallStepNextInstance(r) ==
    /\ hist.instances < MaxInstances
    /\ cons' = [cons EXCEPT ![r] = NextInstance(@)]
    /\ hist' = [hist EXCEPT !.instances = @ + 1]
    /\ ret' = [op |-> "next_instance"]
    /\ UNCHANGED <<logs, net, loop, cst, round>>

\* a recovery state far behind the replica makes the loop of
\* install_new_phase run through the whole i32 range: left out
InstallStepRecover(r, rs) ==
    /\ hist.installs < MaxInstalls
    /\ SequenceNumber(cons[r]) - LastDecided(rs) <= OVERFLOW_THRES_POS
    /\ LET res == InstallRecoveryState(rs, cons[r], logs[r])
       IN  /\ cons' = [cons EXCEPT ![r] = res.cons]
           /\ logs' = [logs EXCEPT ![r] = res.log]
           /\ hist' = [hist EXCEPT !.view = res.view, !.executor = res.executor,
                                   !.installs = @ + 1]
           /\ ret' = [op |-> "install_recovery_state", ok |-> res.ok, rs |-> rs,
                      before |-> SequenceNumber(cons[r])]
    /\ UNCHANGED <<net, loop, cst, round>>

InstallNext ==
    \/ InstallStepNextInstance(InstallReplica)
    \/ \E rs \in InstallStates : InstallStepRecover(InstallReplica, rs)

SpecInstall == InstallInit /\ [][InstallNext]_vars

(***************************************************************************)
(* Collaborative state transfer                                            *)
(***************************************************************************)
CstMessage(seq, kind, cid, state) ==
    [seq |-> seq, kind |-> kind, cid |-> cid, state |-> state]

\* the digest of the payload of a message, taken to be free of collisions
PayloadDigest(m) == <<m.seq, m.kind, m.cid, m.state>>

CstHeader(from, m) == [from |-> from, digest |-> PayloadDigest(m)]

\* CstMessage::take_state
TakeState(m) ==
    IF m.kind = "ReplyState" THEN [some |-> TRUE, state |-> m.state]
    ELSE [some |-> FALSE, state |-> NoRecoveryState]

CstPhaseInit == [name |-> "Init", i |-> 0, waiting |-> <<>>]
CstWaitingCheckpoint(h, m) ==
    [name |-> "WaitingCheckpoint", i |-> 0, waiting |-> <<Stored(h, m)>>]
CstReceivingCid(i) == [name |-> "ReceivingCid", i |-> i, waiting |-> <<>>]
CstReceivingState(i) == [name |-> "ReceivingState", i |-> i, waiting |-> <<>>]

CstStatus(tag) == [tag |-> tag, seq |-> 0, state |-> NoRecoveryState]
CstStatusSeqNo(seq) == [tag |-> "SeqNo", seq |-> seq, state |-> NoRecoveryState]
CstStatusState(state) == [tag |-> "State", seq |-> 0, state |-> state]

CstProgressNil == [tag |-> "Nil"]
CstProgressMessage(h, m) == [tag |-> "Message", header |-> h, message |-> m]

CollabStateTransferNew(base_timeout) ==
    [base_timeout |-> base_timeout,
     curr_timeout |-> base_timeout,
     received_states |-> <<>>,
     phase |-> CstPhaseInit,
     latest_cid |-> 0,
     latest_cid_count |-> 0,
     cst_seq |-> 0]

\* process_reply_state: the transfer afterwards and the messages sent
ProcessReplyState(cs, header, message, view, log) ==
    LET snapshot == LogSnapshot(log, view)
    IN  IF ~snapshot.ok
        THEN [cs |-> [cs EXCEPT !.phase = CstWaitingCheckpoint(header, message)],
              out |-> <<>>]
        ELSE [cs |-> cs,
              out |-> <<[to |-> header.from,
                         message |-> CstMessage(message.seq, "ReplyState", 0,
                                                snapshot.rs)]>>]

ProcessWaitingCheckpoint(cs, view, log) ==
    LET w == cs.phase.waiting[1]
        p == ProcessReplyState([cs EXCEPT !.phase = CstPhaseInit],
                               w.header, w.message, view, log)
    IN  [cs |-> p.cs, status |-> CstStatus("Nil"), out |-> p.out]

ProcessInit(cs, progress, view, consensus, log) ==
    IF progress.tag = "Nil"
    THEN [cs |-> cs, status |-> CstStatus("Nil"), out |-> <<>>]
    ELSE IF progress.message.kind = "RequestLatestConsensusSeq"
    THEN [cs |-> cs, status |-> CstStatus("Nil"),
          out |-> <<[to |-> progress.header.from,
                     message |-> CstMessage(progress.message.seq,
                                            "ReplyLatestConsensusSeq",
                                            SequenceNumber(consensus),
                                            NoRecoveryState)]>>]
    ELSE IF progress.message.kind = "RequestState"
    THEN LET p == ProcessReplyState(cs, progress.header, progress.message, view, log)
         IN  [cs |-> p.cs, status |-> CstStatus("Nil"), out |-> p.out]
    ELSE [cs |-> cs, status |-> CstStatus("Nil"), out |-> <<>>]

\* a discovery round that yields the latest cid as soon as f replies carry it
ProcessReceivingCidFromF(cs, progress, view) ==
    IF progress.tag = "Nil"
    THEN [cs |-> cs, status |-> CstStatus("RequestLatestCid"), out |-> <<>>]
    ELSE IF progress.message.seq # cs.cst_seq
    THEN [cs |-> cs, status |-> CstStatus("Running"), out |-> <<>>]
    ELSE IF progress.message.kind # "ReplyLatestConsensusSeq"
    THEN [cs |-> cs, status |-> CstStatus("Running"), out |-> <<>>]
    ELSE LET seq == progress.message.cid
             ord == SeqNoCmp(seq, cs.latest_cid)
             c1 == IF ord = "Greater"
                   THEN [cs EXCEPT !.latest_cid = seq, !.latest_cid_count = 1]
                   ELSE IF ord = "Equal"
                   THEN [cs EXCEPT !.latest_cid_count = @ + 1]
                   ELSE cs
             i == cs.phase.i + 1
         IN  IF i = Quorum(view)
             THEN IF c1.latest_cid_count >= view.f
                  THEN [cs |-> [c1 EXCEPT !.phase = CstPhaseInit,
                                          !.curr_timeout = c1.base_timeout],
                        status |-> CstStatusSeqNo(c1.latest_cid), out |-> <<>>]
                  ELSE [cs |-> [c1 EXCEPT !.phase = CstPhaseInit],
                        status |-> CstStatus("RequestLatestCid"), out |-> <<>>]
             ELSE [cs |-> [c1 EXCEPT !.phase = CstReceivingCid(i)],
                   status |-> CstStatus("Running"), out |-> <<>>]

ProcessReceivingCid(cs, progress, view) ==
    IF progress.tag = "Nil"
    THEN [cs |-> cs, status |-> CstStatus("RequestLatestCid"), out |-> <<>>]
    ELSE IF progress.message.seq # cs.cst_seq
    THEN [cs |-> cs, status |-> CstStatus("Running"), out |-> <<>>]
    ELSE IF progress.message.kind # "ReplyLatestConsensusSeq"
    THEN [cs |-> cs, status |-> CstStatus("Running"), out |-> <<>>]
    ELSE LET seq == progress.message.cid
             ord == SeqNoCmp(seq, cs.latest_cid)
             c1 == IF ord = "Greater"
                   THEN [cs EXCEPT !.latest_cid = seq, !.latest_cid_count = 1]
                   ELSE IF ord = "Equal"
                   THEN [cs EXCEPT !.latest_cid_count = @ + 1]
                   ELSE cs
             i == cs.phase.i + 1
         IN  IF i = Quorum(view)
             THEN IF c1.latest_cid_count > view.f
                  THEN [cs |-> [c1 EXCEPT !.phase = CstPhaseInit,
                                          !.curr_timeout = c1.base_timeout],
                        status |-> CstStatusSeqNo(c1.latest_cid), out |-> <<>>]
                  ELSE [cs |-> [c1 EXCEPT !.phase = CstPhaseInit],
                        status |-> CstStatus("RequestLatestCid"), out |-> <<>>]
             ELSE [cs |-> [c1 EXCEPT !.phase = CstReceivingCid(i)],
                   status |-> CstStatus("Running"), out |-> <<>>]

\* the digests whose count is the largest: max_by_key yields one of them, and
\* the status is the same for each, two buckets of more than f replies
\* needing more than 2f+1 replies
MaxCountDigests(received_states) ==
    {d \in DOMAIN received_states :
        \A e \in DOMAIN received_states :
            received_states[e].count <= received_states[d].count}

ProcessReceivingState(cs, progress, view) ==
    IF progress.tag = "Nil"
    THEN [cs |-> cs, status |-> CstStatus("RequestState"), out |-> <<>>]
    ELSE IF progress.message.seq # cs.cst_seq
    THEN [cs |-> cs, status |-> CstStatus("Running"), out |-> <<>>]
    ELSE IF ~TakeState(progress.message).some
    THEN [cs |-> cs, status |-> CstStatus("Running"), out |-> <<>>]
    ELSE LET state == TakeState(progress.message).state
             digest == progress.header.digest
             entry == IF digest \in DOMAIN cs.received_states
                      THEN cs.received_states[digest]
                      ELSE [count |-> 0, state |-> state]
             rcv == [d \in (DOMAIN cs.received_states) \cup {digest} |->
                        IF d = digest THEN [entry EXCEPT !.count = @ + 1]
                        ELSE cs.received_states[d]]
             i == cs.phase.i + 1
         IN  IF i # Quorum(view)
             THEN [cs |-> [cs EXCEPT !.received_states = rcv,
                                     !.phase = CstReceivingState(i)],
                   status |-> CstStatus("Running"), out |-> <<>>]
             ELSE LET best == rcv[CHOOSE d \in MaxCountDigests(rcv) : TRUE]
                      c1 == [cs EXCEPT !.received_states = <<>>,
                                       !.curr_timeout = cs.base_timeout]
                  IN  IF best.count > view.f
                      THEN [cs |-> c1, status |-> CstStatusState(best.state),
                            out |-> <<>>]
                      ELSE [cs |-> c1, status |-> CstStatus("RequestState"),
                            out |-> <<>>]

\* CollabStateTransfer::process_message
CstProcessMessage(cs, progress, view, consensus, log) ==
    IF cs.phase.name = "WaitingCheckpoint"
    THEN ProcessWaitingCheckpoint(cs, view, log)
    ELSE IF cs.phase.name = "Init"
    THEN ProcessInit(cs, progress, view, consensus, log)
    ELSE IF cs.phase.name = "ReceivingCid"
    THEN ProcessReceivingCid(cs, progress, view)
    ELSE ProcessReceivingState(cs, progress, view)

NextSeq(cs) == [next |-> cs.cst_seq, cs |-> [cs EXCEPT !.cst_seq = SeqNoNext(@)]]

TimedOut(cs, seq) ==
    IF SeqNoNext(seq) # cs.cst_seq
    THEN [cs |-> cs, status |-> CstStatus("Nil")]
    ELSE IF cs.phase.name = "ReceivingCid"
    THEN [cs |-> [cs EXCEPT !.curr_timeout = @ * 2],
          status |-> CstStatus("RequestLatestCid")]
    ELSE IF cs.phase.name = "ReceivingState"
    THEN [cs |-> [cs EXCEPT !.curr_timeout = @ * 2],
          status |-> CstStatus("RequestState")]
    ELSE [cs |-> cs, status |-> CstStatus("Nil")]

\* the request broadcast to the replicas 0..n, and the timeout registered
CstBroadcast(view, m) == [to \in 0..(view.n - 1) |-> m]

RequestLatestConsensusSeqNo(cs, view) ==
    LET ns == NextSeq([cs EXCEPT !.latest_cid = 0, !.latest_cid_count = 0])
    IN  [cs |-> [ns.cs EXCEPT !.phase = CstReceivingCid(0)],
         timeout |-> [duration |-> cs.curr_timeout, seq |-> ns.next],
         out |-> CstBroadcast(view, CstMessage(ns.next, "RequestLatestConsensusSeq",
                                               0, NoRecoveryState))]

RequestLatestState(cs, view) ==
    LET ns == NextSeq([cs EXCEPT !.received_states = <<>>])
    IN  [cs |-> [ns.cs EXCEPT !.phase = CstReceivingState(0)],
         timeout |-> [duration |-> cs.curr_timeout, seq |-> ns.next],
         out |-> CstBroadcast(view, CstMessage(ns.next, "RequestState",
                                               0, NoRecoveryState))]

(***************************************************************************)
(* SpecCst: one replica runs the state transfer against its peers.  It     *)
(* starts discovery and state-fetch rounds, and processes the CST messages *)
(* that reach it: requests, and replies that carry the sequence number of  *)
(* its request or its current cst_seq, from any peer, any number of times. *)
(* Its own log holds a Complete checkpoint.                                *)
(***************************************************************************)
\* rounds a run starts, timeouts it delivers, and replies counted in a round
MaxRounds == 1
MaxTimeouts == 1
MaxReplies == 3

CstReplica == 1

CstPeers == {2, 3}

CstBaseTimeout == 1

\* latest consensus sequence numbers carried by replies
CstCids == {-1, 0, 42}

\* recovery states carried by replies
CstStates == {SnapshotAt(TheView, PERIOD, 0), SnapshotAt(TheView, PERIOD, 1)}

CstSeqs(cs) == {cs.cst_seq, IF cs.cst_seq > 0 THEN cs.cst_seq - 1 ELSE 0}

CstMessages(cs) ==
    {CstMessage(seq, kind, 0, NoRecoveryState) :
        seq \in CstSeqs(cs), kind \in {"RequestLatestConsensusSeq", "RequestState"}}
    \cup {CstMessage(seq, "ReplyLatestConsensusSeq", cid, NoRecoveryState) :
        seq \in CstSeqs(cs), cid \in CstCids}
    \cup {CstMessage(seq, "ReplyState", 0, state) :
        seq \in CstSeqs(cs), state \in CstStates}

\* a reply of the round in progress: of the kind the round asks for, and
\* carrying the current cst_seq
CountedReply(cs, m) ==
    /\ m.seq = cs.cst_seq
    /\ \/ cs.phase.name = "ReceivingCid" /\ m.kind = "ReplyLatestConsensusSeq"
       \/ cs.phase.name = "ReceivingState" /\ m.kind = "ReplyState"

CstInit ==
    /\ cst = [r \in {CstReplica} |-> CollabStateTransferNew(CstBaseTimeout)]
    /\ cons = [r \in {CstReplica} |-> ConsensusNew(0, BatchSize)]
    /\ logs = [r \in {CstReplica} |->
                   LogInstallState(LogNew(BatchSize), PERIOD,
                                   SnapshotAt(TheView, PERIOD, 0))]
    /\ hist = [replies |-> <<>>, rounds |-> 0, timeouts |-> 0]
    /\ ret = [op |-> "new"]
    /\ net = Unused /\ loop = Unused /\ round = Unused

CstStepRequestLatestCid(r) ==
    /\ hist.rounds < MaxRounds
    /\ LET rq == RequestLatestConsensusSeqNo(cst[r], TheView)
       IN  /\ cst' = [cst EXCEPT ![r] = rq.cs]
           /\ ret' = [op |-> "request_latest_consensus_seq_no",
                      timeout |-> rq.timeout, out |-> rq.out]
    /\ hist' = [hist EXCEPT !.replies = <<>>, !.rounds = @ + 1]
    /\ UNCHANGED <<cons, logs, net, loop, round>>

CstStepRequestState(r) ==
    /\ hist.rounds < MaxRounds
    /\ LET rq == RequestLatestState(cst[r], TheView)
       IN  /\ cst' = [cst EXCEPT ![r] = rq.cs]
           /\ ret' = [op |-> "request_latest_state",
                      timeout |-> rq.timeout, out |-> rq.out]
    /\ hist' = [hist EXCEPT !.replies = <<>>, !.rounds = @ + 1]
    /\ UNCHANGED <<cons, logs, net, loop, round>>

CstStepProcess(r, from, m) ==
    /\ CountedReply(cst[r], m) => Len(hist.replies) < MaxReplies
    /\ LET res == CstProcessMessage(cst[r], CstProgressMessage(CstHeader(from, m), m),
                                    TheView, cons[r], logs[r])
       IN  /\ cst' = [cst EXCEPT ![r] = res.cs]
           /\ ret' = [op |-> "process_message", status |-> res.status,
                      out |-> res.out, before |-> cst[r].phase.name,
                      progress |-> "Message",
                      counted |-> CountedReply(cst[r], m)]
    /\ hist' = [hist EXCEPT !.replies =
                    IF CountedReply(cst[r], m)
                    THEN Append(@, [from |-> from, message |-> m]) ELSE @]
    /\ UNCHANGED <<cons, logs, net, loop, round>>

CstStepNil(r) ==
    /\ LET res == CstProcessMessage(cst[r], CstProgressNil, TheView, cons[r], logs[r])
       IN  /\ cst' = [cst EXCEPT ![r] = res.cs]
           /\ ret' = [op |-> "process_message", status |-> res.status,
                      out |-> res.out, before |-> cst[r].phase.name,
                      progress |-> "Nil", counted |-> FALSE]
    /\ UNCHANGED <<hist, cons, logs, net, loop, round>>

CstStepTimedOut(r, seq) ==
    /\ hist.timeouts < MaxTimeouts
    /\ LET res == TimedOut(cst[r], seq)
       IN  /\ cst' = [cst EXCEPT ![r] = res.cs]
           /\ ret' = [op |-> "timed_out", status |-> res.status, seq |-> seq]
    /\ hist' = [hist EXCEPT !.timeouts = @ + 1]
    /\ UNCHANGED <<cons, logs, net, loop, round>>

CstNext ==
    \/ CstStepRequestLatestCid(CstReplica)
    \/ CstStepRequestState(CstReplica)
    \/ \E from \in CstPeers : \E m \in CstMessages(cst[CstReplica]) :
           CstStepProcess(CstReplica, from, m)
    \/ CstStepNil(CstReplica)
    \/ \E seq \in CstSeqs(cst[CstReplica]) : CstStepTimedOut(CstReplica, seq)

SpecCst == CstInit /\ [][CstNext]_vars

(***************************************************************************)
(* SpecNet: the replicas 0, 1 and 2 run the server loop on one consensus   *)
(* instance (sequence number 0) in the view led by replica 0; replica 3 is *)
(* Byzantine.  Each replica holds the requests 1 and 2 of two clients.  An *)
(* iteration of the loop polls the consensus; on NextMessage it processes  *)
(* the message, on TryProposeAndRecv it proposes the next batch, and then  *)
(* it waits for a message of its channel, which it processes.  On Decided  *)
(* it finalizes the batch and starts the next instance, where the run of   *)
(* the replica ends.  A broadcast reaches every channel at once; a replica *)
(* takes one of the first MaxReorder messages of its channel.  Replica 3   *)
(* sends at most MaxByz messages, before the others start: Prepare or      *)
(* Commit votes to all, or a PrePrepare of request 2 to one replica.       *)
(***************************************************************************)
MaxByz == 2
MaxReorder == 1

NetHonest == {0, 1, 2}
NetFaulty == 3

ConsensusSignal(c) == [c EXCEPT !.tbo = Signal(@)]

\* Node::broadcast to the targets 0..n: the channels of the honest replicas
\* afterwards (the sender's included)
Broadcast(channels, from, out) ==
    [r \in DOMAIN channels |->
        channels[r] \o [i \in 1..Len(out) |-> Stored(Header(from), out[i])]]

\* the orders in which deciding.keys() may yield the batch
BatchOrders(batch) ==
    {s \in [1..Cardinality(batch) -> batch] :
        \A i, j \in 1..Cardinality(batch) : s[i] = s[j] => i = j}

\* the server loop on Decided: finalize_batch has returned fb; next_instance
\* follows unless it failed
ServerDecided(pm, fb) ==
    [cons |-> IF fb.ok THEN ConsensusSignal(NextInstance(pm.cons)) ELSE pm.cons,
     log |-> fb.log, out |-> pm.out, status |-> pm.status,
     pc |-> IF fb.ok THEN "poll" ELSE "failed",
     decided |-> <<[seq |-> SequenceNumber(pm.cons), digests |-> pm.status.digests]>>]

\* the server loop on what process_message returned (c and log were its
\* arguments)
ServerStatus(c, log, pm) ==
    IF pm.status.tag = "Panic"
    THEN [cons |-> c, log |-> log, out |-> <<>>, status |-> pm.status,
          pc |-> "failed", decided |-> <<>>]
    ELSE IF pm.status.tag = "Decided"
    THEN ServerDecided(pm, LogFinalizeBatch(pm.log, pm.status.digests))
    ELSE [cons |-> ConsensusSignal(pm.cons), log |-> pm.log, out |-> pm.out,
          status |-> pm.status, pc |-> "poll", decided |-> <<>>]

\* the server loop on a consensus message: process_message, then on Decided
\* finalize_batch and next_instance, then signal
ServerConsensus(id, c, log, header, message) ==
    ServerStatus(c, log, ProcessMessage(c, log, header, message, TheView, id))

\* the server loop on TryProposeAndRecv: every outcome of next_batch and
\* propose
ServerTryPropose(id, c, log) ==
    UNION {IF nb.some
           THEN {Propose(c, digests, TheView, id) @@ [log |-> nb.log] :
                     digests \in BatchOrders(nb.batch)}
           ELSE {[cons |-> c, log |-> nb.log, out |-> <<>>]} :
               nb \in LogNextBatch(log)}

\* what the loop does with the status p that poll returned, up to
\* node.receive(): every outcome, with the message it processed if poll
\* yielded one
ServerMatch(id, log, p) ==
    IF p.status.tag = "NextMessage"
    THEN {ServerConsensus(id, p.cons, log, p.status.msg.header,
                          p.status.msg.message) @@ [poll |-> p.status]}
    ELSE IF p.status.tag = "TryProposeAndRecv"
    THEN {t @@ [status |-> StatusDeciding, pc |-> "recv", decided |-> <<>>,
                poll |-> p.status] : t \in ServerTryPropose(id, p.cons, log)}
    ELSE {[cons |-> p.cons, log |-> log, out |-> <<>>, status |-> StatusDeciding,
           pc |-> "recv", decided |-> <<>>, poll |-> p.status]}

ServerPolled(id, c, log) == ServerMatch(id, log, Poll(c, log))

NetInit ==
    /\ cons = [r \in NetHonest |-> ConsensusNew(0, 1)]
    /\ logs = [r \in NetHonest |->
                  LogInsertRequest(LogInsertRequest(LogNew(1),
                      StoredRequest(1, 1000, "op1")), StoredRequest(2, 1001, "op2"))]
    /\ net = [r \in NetHonest |-> <<>>]
    /\ loop = [r \in NetHonest |-> "poll"]
    /\ hist = [sent |-> [r \in NetHonest |-> <<>>],
               decided |-> [r \in NetHonest |-> <<>>],
               byz |-> 0, started |-> FALSE]
    /\ ret = [op |-> "new"]
    /\ cst = Unused /\ round = Unused

\* the replica is in its first instance
NetRunning(r) == hist.decided[r] = <<>>

NetHandled(r, channels, s) ==
    /\ cons' = [cons EXCEPT ![r] = s.cons]
    /\ logs' = [logs EXCEPT ![r] = s.log]
    /\ net' = Broadcast(channels, r, s.out)
    /\ loop' = [loop EXCEPT ![r] = s.pc]
    /\ hist' = [hist EXCEPT !.sent[r] = @ \o s.out, !.decided[r] = @ \o s.decided,
                            !.started = TRUE]

\* an iteration of the loop in which poll yields a message, or one that
\* finds the channel empty and stays in node.receive()
NetStepPoll(r) ==
    /\ loop[r] = "poll"
    /\ NetRunning(r)
    /\ \E s \in ServerPolled(r, cons[r], logs[r]) :
           /\ s.pc = "recv" => Len(Broadcast(net, r, s.out)[r]) = 0
           /\ NetHandled(r, net, s)
           /\ ret' = [op |-> "poll", r |-> r, status |-> s.poll,
                      processed |-> s.status, out |-> s.out]
    /\ UNCHANGED <<cst, round>>

\* the channel without its i-th message
ChannelWithout(channel, i) ==
    SubSeq(channel, 1, i - 1) \o SubSeq(channel, i + 1, Len(channel))

\* node.receive() yields the i-th message of the channel and the loop
\* processes it: the end of the iteration that waited for it, or the whole
\* of an iteration in which poll yields no message
NetStepReceive(r, i) ==
    /\ NetRunning(r)
    /\ loop[r] \in {"poll", "recv"}
    /\ \E s \in IF loop[r] = "recv"
                THEN {[cons |-> cons[r], log |-> logs[r], out |-> <<>>, pc |-> "recv"]}
                ELSE ServerPolled(r, cons[r], logs[r]) :
       \E channels \in {Broadcast(net, r, s.out)} :
           /\ s.pc = "recv"
           /\ i \in 1..Len(channels[r])
           /\ i <= MaxReorder
           /\ \E h \in {ServerConsensus(r, s.cons, s.log, channels[r][i].header,
                                        channels[r][i].message)} :
                  /\ NetHandled(r, [channels EXCEPT ![r] = ChannelWithout(@, i)],
                                [h EXCEPT !.out = s.out \o @])
                  /\ ret' = [op |-> "receive", r |-> r,
                             status |-> PollNextMessage(channels[r][i]),
                             processed |-> h.status, out |-> s.out \o h.out]
    /\ UNCHANGED <<cst, round>>

ByzVote(kind) ==
    /\ hist.byz < MaxByz
    /\ ~hist.started
    /\ net' = Broadcast(net, NetFaulty, <<ConsensusMessage(0, kind, <<>>)>>)
    /\ hist' = [hist EXCEPT !.byz = @ + 1]
    /\ ret' = [op |-> "byzantine", r |-> NetFaulty]
    /\ UNCHANGED <<cons, logs, loop, cst, round>>

ByzForge(to) ==
    /\ hist.byz < MaxByz
    /\ ~hist.started
    /\ net' = [net EXCEPT ![to] =
                   Append(@, Stored(Header(NetFaulty),
                                    ConsensusMessage(0, "PrePrepare", <<2>>)))]
    /\ hist' = [hist EXCEPT !.byz = @ + 1]
    /\ ret' = [op |-> "byzantine", r |-> NetFaulty]
    /\ UNCHANGED <<cons, logs, loop, cst, round>>

NetNext ==
    \/ \E r \in NetHonest : NetStepPoll(r)
    \/ \E r \in NetHonest, i \in 1..MaxReorder : NetStepReceive(r, i)
    \/ \E kind \in {"Prepare", "Commit"} : ByzVote(kind)
    \/ \E to \in NetHonest : ByzForge(to)

SpecNet == NetInit /\ [][NetNext]_vars

\* the loop of an honest replica keeps running, and its channel yields the
\* messages it holds
NetFairness ==
    \A r \in NetHonest :
        /\ WF_vars(NetStepPoll(r))
        /\ WF_vars(\E i \in 1..MaxReorder : NetStepReceive(r, i))

\* the run in which replica 3 sends nothing
LiveNext ==
    \/ \E r \in NetHonest : NetStepPoll(r)
    \/ \E r \in NetHonest, i \in 1..MaxReorder : NetStepReceive(r, i)

LiveNet == NetInit /\ [][LiveNext]_vars /\ NetFairness

(***************************************************************************)
(* SpecSeqNo: sequence numbers under next().  A 32-bit sequence number     *)
(* starts at one of SeqStarts, a sequence number of SeqWidth bits starts   *)
(* at 0, and next() is applied to both, up to one application more than   *)
(* the narrow one needs to come back to 0.                                 *)
(***************************************************************************)
SeqWidth == 7

SeqStarts == {I32_MIN, -1, 0, DROP_SEQNO_THRES, I32_MAX - WidthMax(SeqWidth)}

SeqInit ==
    /\ hist = [seq |-> 0, narrow |-> 0, nexts |-> -1]
    /\ ret = [op |-> "new"]
    /\ cons = Unused /\ logs = Unused /\ net = Unused /\ loop = Unused
    /\ cst = Unused /\ round = Unused

\* SeqNo::from(u32) of the start
SeqStepFrom(start) ==
    /\ hist.nexts = -1
    /\ hist' = [seq |-> start, narrow |-> 0, nexts |-> 0]
    /\ ret' = [op |-> "from", of |-> start, next |-> start,
               index |-> SeqNoIndex(start, start),
               self |-> SeqNoIndex(start, start)]
    /\ UNCHANGED <<cons, logs, net, loop, cst, round>>

SeqStepNext ==
    /\ hist.nexts >= 0
    /\ hist.nexts <= WidthMax(SeqWidth) + 1
    /\ hist' = [seq |-> SeqNoNext(hist.seq),
                narrow |-> SeqNoNextWidth(hist.narrow, SeqWidth),
                nexts |-> hist.nexts + 1]
    /\ ret' = [op |-> "next", of |-> hist.seq, next |-> SeqNoNext(hist.seq),
               index |-> SeqNoIndex(SeqNoNext(hist.seq), hist.seq),
               self |-> SeqNoIndex(hist.seq, hist.seq)]
    /\ UNCHANGED <<cons, logs, net, loop, cst, round>>

SeqNext ==
    \/ \E start \in SeqStarts : SeqStepFrom(start)
    \/ SeqStepNext

SpecSeqNo == SeqInit /\ [][SeqNext]_vars

(***************************************************************************)
(* Header (communication::message), on a little-endian target: the blocks  *)
(* under cfg(target_endian = "big") are not compiled.  A u32 or u64 field  *)
(* is a number below 2^31; the memory of the repr(C) struct is its fields  *)
(* in little-endian bytes at their offsets, with 4 bytes of padding before *)
(* length, whose content is not defined.                                   *)
(***************************************************************************)
SIGNATURE_LENGTH == 64
HEADER_LENGTH == 88

MessageHeader(version, from, to, length, signature) ==
    [version |-> version, from |-> from, to |-> to, length |-> length,
     signature |-> signature]

\* the i-th byte (from 1) of the little-endian representation of v < 2^31
LeByte(v, i) == IF i > 4 THEN 0 ELSE (v \div (256 ^ (i - 1))) % 256

\* the number whose little-endian bytes are bytes[at + 1 .. at + n]
RECURSIVE FromLeBytes(_, _, _)
FromLeBytes(bytes, at, n) ==
    IF n = 0 THEN 0
    ELSE bytes[at + 1] + (256 * FromLeBytes(bytes, at + 1, n - 1))

\* std::mem::transmute(self): the bytes of the struct, pad in the padding
Transmute(h, pad) ==
    [i \in 1..HEADER_LENGTH |->
        IF i <= 4 THEN LeByte(h.version, i)
        ELSE IF i <= 8 THEN LeByte(h.from, i - 4)
        ELSE IF i <= 12 THEN LeByte(h.to, i - 8)
        ELSE IF i <= 16 THEN pad
        ELSE IF i <= 24 THEN LeByte(h.length, i - 16)
        ELSE h.signature[i - 24]]

SerializeIntoUnchecked(h, buf, pad) ==
    [i \in 1..Len(buf) |-> IF i <= HEADER_LENGTH THEN Transmute(h, pad)[i] ELSE buf[i]]

\* Header::serialize_into: [ok, err, buf]
SerializeInto(h, buf, pad) ==
    IF Len(buf) < HEADER_LENGTH
    THEN [ok |-> FALSE, err |-> "CommunicationMessage", buf |-> buf]
    ELSE [ok |-> TRUE, err |-> "None", buf |-> SerializeIntoUnchecked(h, buf, pad)]

\* a deserialization that reads `to` where `from` is
DeserializeFromUncheckedShifted(buf) ==
    MessageHeader(FromLeBytes(buf, 0, 4), FromLeBytes(buf, 4, 4), FromLeBytes(buf, 4, 4),
                  FromLeBytes(buf, 16, 8),
                  [i \in 1..SIGNATURE_LENGTH |-> buf[24 + i]])

\* the array hdr is overwritten whole by copy_from_slice before it is read
DeserializeFromUnchecked(buf) ==
    MessageHeader(FromLeBytes(buf, 0, 4), FromLeBytes(buf, 4, 4), FromLeBytes(buf, 8, 4),
                  FromLeBytes(buf, 16, 8),
                  [i \in 1..SIGNATURE_LENGTH |-> buf[24 + i]])

NoHeader == MessageHeader(0, 0, 0, 0, <<>>)

\* Header::deserialize_from: [ok, err, header]
DeserializeFrom(buf) ==
    IF Len(buf) < HEADER_LENGTH
    THEN [ok |-> FALSE, err |-> "CommunicationMessage", header |-> NoHeader]
    ELSE [ok |-> TRUE, err |-> "None", header |-> DeserializeFromUnchecked(buf)]

(***************************************************************************)
(* SpecHeader: a header is serialized into a buffer, and a header is       *)
(* deserialized from the buffer.                                           *)
(***************************************************************************)
MaxSlack == 1

HeaderNumbers == {0, 1, 255, 256, 65536, I32_MAX}

HeaderSignatures ==
    {[i \in 1..SIGNATURE_LENGTH |-> 0], [i \in 1..SIGNATURE_LENGTH |-> 255],
     [i \in 1..SIGNATURE_LENGTH |-> i]}

HeaderInputs ==
    {MessageHeader(v, f, t, l, sig) :
        v \in {0, 1}, f \in {0, 256, I32_MAX}, t \in {0, 3, 65536},
        l \in HeaderNumbers, sig \in HeaderSignatures}

\* the buffers given: some bytes short of Header::LENGTH, up to MaxSlack longer
HeaderBuffers ==
    {[i \in 1..n |-> b] : n \in {0} \cup ((HEADER_LENGTH - 1)..(HEADER_LENGTH + MaxSlack)),
                          b \in {0, 170}}

HeaderInit ==
    /\ hist = [header |-> NoHeader, buf |-> <<>>, given |-> <<>>, serialized |-> FALSE]
    /\ ret = [op |-> "new"]
    /\ cons = Unused /\ logs = Unused /\ net = Unused /\ loop = Unused
    /\ cst = Unused /\ round = Unused

HeaderStepSerialize(h, buf, pad) ==
    /\ ret.op = "new"
    /\ \E s \in {SerializeInto(h, buf, pad)} :
           /\ hist' = [header |-> h, buf |-> s.buf, given |-> buf, serialized |-> s.ok]
           /\ ret' = [op |-> "serialize_into", ok |-> s.ok, err |-> s.err]
    /\ UNCHANGED <<cons, logs, net, loop, cst, round>>

HeaderStepDeserialize ==
    /\ ret.op = "serialize_into"
    /\ \E d \in {DeserializeFrom(hist.buf)} :
           ret' = [op |-> "deserialize_from", ok |-> d.ok, err |-> d.err,
                   header |-> d.header]
    /\ UNCHANGED <<hist, cons, logs, net, loop, cst, round>>

HeaderNext ==
    \/ \E h \in HeaderInputs, buf \in HeaderBuffers, pad \in {0, 204} :
           HeaderStepSerialize(h, buf, pad)
    \/ HeaderStepDeserialize

SpecHeader == HeaderInit /\ [][HeaderNext]_vars

(***************************************************************************)
(* Node::bootstrap.  The node is a record [id, n, first_cli, peer_tx, rx,  *)
(* c, rogue, status]: peer_tx is the set of the peers it holds a send      *)
(* socket to, rx the set of the peers whose accepted socket a task reads,  *)
(* c the counters of bootstrap, status what bootstrap has returned.        *)
(***************************************************************************)
BootMessage(kind, id, payload) == [kind |-> kind, id |-> id, payload |-> payload]

\* the socket of the conn-th connection accepted, whose first header is
\* from the peer `from`
Socket(from, conn) == [from |-> from, conn |-> conn]

\* the absent id of DisconnectedRx(None)
NoNodeId == -1

\* the node when bootstrap enters its loop
NodeNew(id, n, first_cli) ==
    [id |-> id, n |-> n, first_cli |-> first_cli, peer_tx |-> {}, rx |-> {},
     c |-> [i \in 0..(n - 1) |-> 0], rogue |-> <<>>, status |-> "Running"]

\* the condition of the while loop of bootstrap
BootstrapPending(node) ==
    \E i \in 0..(node.n - 1) : i # node.id /\ node.c[i] # 2

\* c[usize::from(id)] += 1 for an id that is not of a client; the index is
\* out of bounds for an id from n on
BootstrapCount(node, id) ==
    IF id >= node.first_cli THEN node
    ELSE IF id >= node.n THEN [node EXCEPT !.status = "Panic"]
    ELSE [node EXCEPT !.c[id] = @ + 1]

\* handle_connected_tx: the send socket to the peer is kept
HandleConnectedTx(node, peer_id) == [node EXCEPT !.peer_tx = @ \cup {peer_id}]

\* handle_connected_rx: a task is spawned that reads the socket for ever
\* (and, in a replica, a connect task for a client that has no send socket)
HandleConnectedRx(node, peer_id, sock) == [node EXCEPT !.rx = @ \cup {sock}]

\* a bootstrap that takes DisconnectedRx(None) for a rogue message
BootstrapMatchLenient(node, m) ==
    IF m.kind = "ConnectedTx"
    THEN BootstrapCount(HandleConnectedTx(node, m.id), m.id)
    ELSE IF m.kind = "ConnectedRx"
    THEN BootstrapCount(HandleConnectedRx(node, m.id, m.payload), m.id)
    ELSE IF m.kind \in {"DisconnectedTx", "DisconnectedRx"} /\ m.id # NoNodeId
    THEN [node EXCEPT !.status = "Err(Communication)"]
    ELSE [node EXCEPT !.rogue = Append(@, m)]

\* the match on the message received, in the loop of bootstrap
BootstrapMatch(node, m) ==
    IF m.kind = "ConnectedTx"
    THEN BootstrapCount(HandleConnectedTx(node, m.id), m.id)
    ELSE IF m.kind = "ConnectedRx"
    THEN BootstrapCount(HandleConnectedRx(node, m.id, m.payload), m.id)
    ELSE IF m.kind \in {"DisconnectedTx", "DisconnectedRx"}
    THEN [node EXCEPT !.status = "Err(Communication)"]
    ELSE [node EXCEPT !.rogue = Append(@, m)]

\* the loop leaves with Ok((node, rogue)) when its condition fails
BootstrapLoop(node) ==
    IF node.status = "Running" /\ ~BootstrapPending(node)
    THEN [node EXCEPT !.status = "Ok"]
    ELSE node

\* an iteration of the loop of bootstrap, on the message m of the channel
Bootstrap(node, m) == BootstrapLoop(BootstrapMatch(node, m))

\* an accept task that does not test the destination of the first header
RxSideAcceptTaskAnyDest(first_cli, my_id, conn, sock) ==
    IF conn.fault # "none"
    THEN BootMessage("DisconnectedRx", NoNodeId, "none")
    ELSE IF conn.from >= first_cli /\ my_id >= first_cli
    THEN BootMessage("DisconnectedRx", NoNodeId, "none")
    ELSE BootMessage("ConnectedRx", conn.from, sock)

\* rx_side_accept_task, on a connection [from, to, fault, frames]: from and
\* to are those of the first header the peer writes; fault tells whether the
\* TLS handshake fails ("tls"), the read of the header fails ("read") or
\* WireMessage::from_parts rejects the header ("header").  The value is the
\* message the task posts
RxSideAcceptTask(first_cli, my_id, conn, sock) ==
    IF conn.fault # "none"
    THEN BootMessage("DisconnectedRx", NoNodeId, "none")
    ELSE IF conn.from >= first_cli /\ my_id >= first_cli
    THEN BootMessage("DisconnectedRx", NoNodeId, "none")
    ELSE IF conn.to # my_id
    THEN BootMessage("DisconnectedRx", NoNodeId, "none")
    ELSE BootMessage("ConnectedRx", conn.from, sock)

(***************************************************************************)
(* SpecBoot: replica 0 of 4 bootstraps.  Its channel gets what the tasks   *)
(* of the node post: for each other replica, ConnectedTx or DisconnectedTx *)
(* once (the connect task); ConnectedRx of any peer that connects, a peer  *)
(* connecting up to MaxAccepts times; DisconnectedRx(None) of a handshake  *)
(* that failed; System messages, and DisconnectedRx(p), of the sockets     *)
(* being read.  The client 1000 connects too.                              *)
(***************************************************************************)
MaxAccepts == 2
MaxRogue == 2

BootId == 0
BootFirstCli == 1000
BootReplicas == (0..(TheView.n - 1)) \ {BootId}
BootPeers == BootReplicas \cup {BootFirstCli}

BootInit ==
    /\ net = [r \in {BootId} |-> NodeNew(BootId, TheView.n, BootFirstCli)]
    /\ hist = [tx |-> [p \in BootPeers |-> "None"],
               rx |-> [p \in BootPeers |-> 0],
               others |-> <<>>, disconnected |-> FALSE]
    /\ ret = [op |-> "new"]
    /\ cons = Unused /\ logs = Unused /\ loop = Unused
    /\ cst = Unused /\ round = Unused

BootReceive(r, m) ==
    /\ net[r].status = "Running"
    /\ net' = [net EXCEPT ![r] = Bootstrap(@, m)]
    /\ ret' = [op |-> "receive", message |-> m]

\* the connect task of peer p: ConnectedTx(p) or DisconnectedTx(p).  The task
\* of a client is spawned when its connection is accepted
BootStepTx(r, p, kind) ==
    /\ hist.tx[p] = "None"
    /\ p >= BootFirstCli => \E sock \in net[r].rx : sock.from = p
    /\ BootReceive(r, BootMessage(kind, p, "socket"))
    /\ hist' = [hist EXCEPT !.tx[p] = kind,
                            !.disconnected = @ \/ kind = "DisconnectedTx"]
    /\ UNCHANGED <<cons, logs, loop, cst, round>>

\* an accept task: ConnectedRx(p), or DisconnectedRx(None)
BootStepAccept(r, p) ==
    /\ p # NoNodeId => hist.rx[p] < MaxAccepts
    /\ IF p = NoNodeId
       THEN /\ BootReceive(r, BootMessage("DisconnectedRx", NoNodeId, "none"))
            /\ hist' = [hist EXCEPT !.disconnected = TRUE]
       ELSE /\ BootReceive(r, BootMessage("ConnectedRx", p, Socket(p, hist.rx[p])))
            /\ hist' = [hist EXCEPT !.rx[p] = @ + 1]
    /\ UNCHANGED <<cons, logs, loop, cst, round>>

\* the task reading the socket of p: a System message, or DisconnectedRx(p)
BootStepRead(r, p, m) ==
    /\ \E sock \in net[r].rx : sock.from = p
    /\ m.kind = "System" => Len(hist.others) < MaxRogue
    /\ BootReceive(r, m)
    /\ hist' = [hist EXCEPT !.others = IF m.kind = "System" THEN Append(@, m) ELSE @,
                            !.disconnected = @ \/ m.kind = "DisconnectedRx"]
    /\ UNCHANGED <<cons, logs, loop, cst, round>>

BootNext ==
    \/ \E p \in BootPeers, kind \in {"ConnectedTx", "DisconnectedTx"} :
           BootStepTx(BootId, p, kind)
    \/ \E p \in BootPeers \cup {NoNodeId} : BootStepAccept(BootId, p)
    \/ \E p \in BootPeers :
           \E m \in {BootMessage("System", p, payload) : payload \in {"a", "b"}}
                        \cup {BootMessage("DisconnectedRx", p, "none")} :
               BootStepRead(BootId, p, m)

SpecBoot == BootInit /\ [][BootNext]_vars

(***************************************************************************)
(* SpecAccept: the tasks of a bootstrapping node, a replica or a client.   *)
(* Peers connect (up to MaxConns connections), each writing a first header *)
(* and then frames; the accept task of each connection posts to the        *)
(* channel my_rx, held in loop; bootstrap receives from the channel, and   *)
(* the task it spawns for an accepted socket posts the frames it reads.    *)
(* hist.sent is everything ever posted to the channel.                     *)
(***************************************************************************)
MaxConns == 2
MaxFrames == 1

AcceptIds == {BootId, BootFirstCli}
AcceptConns ==
    [from : {1, BootFirstCli + 1}, to : {BootId, 2, BootFirstCli},
     fault : {"none", "tls", "read", "header"}, frames : 0..MaxFrames]

AcceptSockets == {Socket(conn.from, k) : conn \in AcceptConns, k \in 1..MaxConns}

AcceptInit ==
    /\ \E id \in AcceptIds :
           net = [r \in {id} |-> NodeNew(id, TheView.n, BootFirstCli)]
    /\ loop = <<>>
    /\ hist = [conns |-> <<>>, sent |-> <<>>]
    /\ ret = [op |-> "new"]
    /\ cons = Unused /\ logs = Unused /\ cst = Unused /\ round = Unused

AcceptPost(m) ==
    /\ loop' = Append(loop, m)
    /\ ret' = [op |-> "post", message |-> m]

\* a peer connects and the accept task of the connection runs
AcceptStepAccept(r, conn) ==
    /\ r \in DOMAIN net
    /\ Len(hist.conns) < MaxConns
    /\ \E m \in {RxSideAcceptTask(net[r].first_cli, r, conn,
                                  Socket(conn.from, Len(hist.conns) + 1))} :
           /\ AcceptPost(m)
           /\ hist' = [conns |-> Append(hist.conns,
                                        conn @@ [posted |-> m, read |-> 0, closed |-> FALSE]),
                       sent |-> Append(hist.sent, m)]
    /\ UNCHANGED <<cons, logs, net, cst, round>>

\* bootstrap receives the next message of the channel
AcceptStepReceive(r) ==
    /\ r \in DOMAIN net
    /\ net[r].status = "Running"
    /\ loop # <<>>
    /\ net' = [net EXCEPT ![r] = Bootstrap(@, Head(loop))]
    /\ loop' = Tail(loop)
    /\ ret' = [op |-> "receive", message |-> Head(loop)]
    /\ UNCHANGED <<cons, logs, hist, cst, round>>

\* the task reading an accepted socket: it posts the next frame as a System
\* message, or DisconnectedRx(peer) when the read fails, and then ends
AcceptStepRead(r, sock) ==
    /\ r \in DOMAIN net
    /\ sock \in net[r].rx
    /\ ~hist.conns[sock.conn].closed
    /\ \E m \in {IF hist.conns[sock.conn].read < hist.conns[sock.conn].frames
                 THEN BootMessage("System", sock.from, sock)
                 ELSE BootMessage("DisconnectedRx", sock.from, "none")} :
           /\ AcceptPost(m)
           /\ hist' = [conns |-> [hist.conns EXCEPT
                                      ![sock.conn].read = IF m.kind = "System" THEN @ + 1 ELSE @,
                                      ![sock.conn].closed = m.kind # "System"],
                       sent |-> Append(hist.sent, m)]
    /\ UNCHANGED <<cons, logs, net, cst, round>>

AcceptNext ==
    \/ \E r \in AcceptIds, conn \in AcceptConns : AcceptStepAccept(r, conn)
    \/ \E r \in AcceptIds : AcceptStepReceive(r)
    \/ \E r \in AcceptIds, sock \in AcceptSockets : AcceptStepRead(r, sock)

SpecAccept == AcceptInit /\ [][AcceptNext]_vars

(***************************************************************************)
(* SpecPropose: the Consensus of the leader (replica 0) and of replica 1,  *)
(* on which propose is called in whatever phase the messages received have *)
(* brought them to.                                                        *)
(***************************************************************************)
ProposeReplicas == {TheView.leader, TboReplica}
ProposeBatches == {<<1>>, <<1, 2>>}

ProposeInit ==
    /\ cons = [r \in ProposeReplicas |-> ConsensusNew(0, BatchSize)]
    /\ logs = [r \in ProposeReplicas |->
                  LogInsertRequest(LogInsertRequest(LogNew(BatchSize),
                      StoredRequest(1, 1000, "op1")), StoredRequest(2, 1001, "op2"))]
    /\ hist = [msgs |-> 0, instances |-> 0]
    /\ ret = [op |-> "new"]
    /\ net = Unused /\ loop = Unused /\ cst = Unused /\ round = Unused

ProposeStepPropose(r, digests) ==
    /\ \E p \in {Propose(cons[r], digests, TheView, r)} :
           /\ cons' = [cons EXCEPT ![r] = p.cons]
           /\ ret' = [op |-> "propose", id |-> r, digests |-> digests,
                      before |-> cons[r], out |-> p.out]
    /\ UNCHANGED <<logs, hist, net, loop, cst, round>>

ProposeNext ==
    \/ \E r \in ProposeReplicas, digests \in ProposeBatches :
           ProposeStepPropose(r, digests)
    \/ \E r \in ProposeReplicas, from \in {0, 2} :
           \E m \in TboMessages(cons[r].tbo.curr_seq, {0, 1}) : TboProcess(r, from, m)
    \/ \E r \in ProposeReplicas : TboNextInstance(r)

SpecPropose == ProposeInit /\ [][ProposeNext]_vars

(***************************************************************************)
(* SpecCons: the Consensus of replica 1, with every call the server and    *)
(* the recovery make on it, in any order: propose, queue, signal, poll,    *)
(* process_message, next_instance, install_sequence_number and             *)
(* install_new_phase; client requests reach the log meanwhile.  The        *)
(* maximum batch size is BatchSize = 2; the proposed batches hold one or   *)
(* two requests.  The replica starts one sequence number before the wrap    *)
(* at i32::MAX.                                                            *)
(***************************************************************************)
\* messages that end in a phase buffer, messages counted by the phase, and
\* calls of install_sequence_number or install_new_phase
MaxQueued == 1
MaxAccepted == 7
MaxResets == 1

ConsStart == I32_MAX - 1
ConsOffsets == {0, 1}
ConsBatches == {<<1>>, <<1, 2>>}

ConsMessages(curr_seq) ==
    {ConsensusMessage(curr_seq, "PrePrepare", b) : b \in ConsBatches}
        \cup {ConsensusMessage(SeqAhead(curr_seq, d), "PrePrepare", <<1>>) :
                  d \in ConsOffsets \ {0}}
        \cup {ConsensusMessage(SeqAhead(curr_seq, d), k, <<>>) :
                  d \in ConsOffsets, k \in {"Prepare", "Commit"}}
        \cup {ConsensusMessage(SeqAhead(curr_seq, DROP_SEQNO_THRES + 1), "Commit", <<>>)}

\* the message is one process_message counts in the phase of c, not one it
\* only queues
ConsCounted(c, m) ==
    /\ m.seq = SequenceNumber(c)
    /\ \/ c.phase.name = "PrePreparing" /\ m.kind = "PrePrepare"
       \/ c.phase.name = "Preparing" /\ m.kind = "Prepare"
       \/ c.phase.name = "Committing" /\ m.kind = "Commit"

ConsInit ==
    /\ cons = [r \in {TboReplica} |-> ConsensusNew(ConsStart, BatchSize)]
    /\ logs = [r \in {TboReplica} |-> LogNew(BatchSize)]
    /\ hist = [queued |-> 0, accepted |-> 0, instances |-> 0, resets |-> 0]
    /\ ret = [op |-> "new"]
    /\ net = Unused /\ loop = Unused /\ cst = Unused /\ round = Unused

ConsStepPropose(r, digests) ==
    /\ \E p \in {Propose(cons[r], digests, TheView, r)} :
           /\ cons' = [cons EXCEPT ![r] = p.cons]
           /\ ret' = [op |-> "propose", out |-> p.out]
    /\ UNCHANGED <<logs, hist, net, loop, cst, round>>

\* a client request reaches the log
ConsStepRequest(r, digest) ==
    /\ ~LogHasRequest(logs[r], digest)
    /\ logs' = [logs EXCEPT ![r] = LogInsertRequest(@, StoredRequest(digest, 1000, "op"))]
    /\ ret' = [op |-> "insert"]
    /\ UNCHANGED <<cons, hist, net, loop, cst, round>>

ConsStepQueue(r, from, m) ==
    /\ hist.queued < MaxQueued
    /\ cons' = [cons EXCEPT ![r].tbo = Queue(@, Header(from), m)]
    /\ hist' = [hist EXCEPT !.queued = @ + 1]
    /\ ret' = [op |-> "queue", header |-> Header(from), message |-> m]
    /\ UNCHANGED <<logs, net, loop, cst, round>>

\* process_message on a message received from the channel
ConsStepProcess(r, from, m) ==
    /\ IF ConsCounted(cons[r], m) THEN hist.accepted < MaxAccepted
       ELSE hist.queued < MaxQueued
    /\ \E p \in {ProcessMessage(cons[r], logs[r], Header(from), m, TheView, r)} :
           /\ p.status # StatusPanic
           /\ cons' = [cons EXCEPT ![r] = p.cons]
           /\ logs' = [logs EXCEPT ![r] = p.log]
           /\ ret' = [op |-> "process_message", header |-> Header(from), message |-> m,
                      status |-> p.status, out |-> p.out]
    /\ hist' = IF ConsCounted(cons[r], m) THEN [hist EXCEPT !.accepted = @ + 1]
               ELSE [hist EXCEPT !.queued = @ + 1]
    /\ UNCHANGED <<net, loop, cst, round>>

\* install_sequence_number; a call that panics leaves the run where it was
ConsStepInstallSequenceNumber(r, seq) ==
    /\ hist.resets < MaxResets
    /\ \E res \in {InstallSequenceNumber(cons[r], seq)} :
           /\ cons' = [cons EXCEPT ![r] = res.cons]
           /\ ret' = [op |-> "install_sequence_number", seq |-> seq, ok |-> res.ok]
    /\ hist' = [hist EXCEPT !.resets = @ + 1]
    /\ UNCHANGED <<logs, net, loop, cst, round>>

ConsStepInstallNewPhase(r, rs) ==
    /\ hist.resets < MaxResets
    /\ cons' = [cons EXCEPT ![r] = InstallNewPhase(@, rs)]
    /\ ret' = [op |-> "install_new_phase"]
    /\ hist' = [hist EXCEPT !.resets = @ + 1]
    /\ UNCHANGED <<logs, net, loop, cst, round>>

ConsNext ==
    \/ TboProcessPolled(TboReplica)
    \/ ~PolledNextMessage /\ \E d \in {1, 2} : ConsStepRequest(TboReplica, d)
    \/ ~PolledNextMessage /\ \E b \in ConsBatches : ConsStepPropose(TboReplica, b)
    \/ /\ ~PolledNextMessage
       /\ \E m \in ConsMessages(SequenceNumber(cons[TboReplica])) :
              ConsStepQueue(TboReplica, 0, m)
    \/ /\ ~PolledNextMessage
       /\ \E m \in ConsMessages(SequenceNumber(cons[TboReplica])) :
              ConsStepProcess(TboReplica, 0, m)
    \/ ~PolledNextMessage /\ TboSignal(TboReplica)
    \/ ~PolledNextMessage /\ TboPoll(TboReplica)
    \/ TboNextInstance(TboReplica)
    \/ /\ ~PolledNextMessage
       /\ \E d \in {0, 1, 2} :
              ConsStepInstallSequenceNumber(TboReplica,
                  SeqAhead(SequenceNumber(cons[TboReplica]), d))
    \/ /\ ~PolledNextMessage
       /\ SequenceNumber(cons[TboReplica]) \in 0..(I32_MAX - 1)
       /\ \E k \in 0..1 :
              ConsStepInstallNewPhase(TboReplica,
                  SnapshotAt(TheView, SequenceNumber(cons[TboReplica]), k))

SpecCons == ConsInit /\ [][ConsNext]_vars

(***************************************************************************)
(* SpecCkpt: the Log of one replica, whose insert, finalize_batch and      *)
(* finalize_checkpoint are called in any order: the application state of   *)
(* a checkpoint comes back from the executor at any time, also after       *)
(* PERIOD more instances were decided, and finalize_checkpoint may be      *)
(* called with no checkpoint begun.  The consensus messages inserted are   *)
(* of an instance that begins no checkpoint and of the instances PERIOD    *)
(* and 2 * PERIOD, which do.                                               *)
(***************************************************************************)
\* the requests and the consensus messages inserted, and the calls of
\* finalize_batch and of finalize_checkpoint
MaxCkptRequests == 3
MaxCkptMessages == 3
MaxCkptBatches == 3
MaxCkptFinalizes == 2

CkptReplica == 1
CkptDigests == {1, 2}
CkptAppstates == {7}

CkptMessages ==
    {ConsensusMessage(seq, "PrePrepare", <<1>>) : seq \in {1, PERIOD, 2 * PERIOD}}
        \cup {ConsensusMessage(PERIOD, k, <<>>) : k \in {"Prepare", "Commit"}}

CkptInit ==
    /\ logs = [r \in {CkptReplica} |-> LogNew(1)]
    /\ hist = [requests |-> 0, messages |-> 0, batches |-> 0, finalizes |-> 0]
    /\ ret = [op |-> "new"]
    /\ cons = Unused /\ net = Unused /\ loop = Unused /\ cst = Unused
    /\ round = Unused

CkptStepRequest(r, digest) ==
    /\ hist.requests < MaxCkptRequests
    /\ ~LogHasRequest(logs[r], digest)
    /\ logs' = [logs EXCEPT ![r] = LogInsertRequest(@, StoredRequest(digest, 1000, digest))]
    /\ hist' = [hist EXCEPT !.requests = @ + 1]
    /\ ret' = [op |-> "insert"]
    /\ UNCHANGED <<cons, net, loop, cst, round>>

CkptStepConsensus(r, m) ==
    /\ hist.messages < MaxCkptMessages
    /\ logs' = [logs EXCEPT ![r] = LogInsertConsensus(@, Header(0), m)]
    /\ hist' = [hist EXCEPT !.messages = @ + 1]
    /\ ret' = [op |-> "insert"]
    /\ UNCHANGED <<cons, net, loop, cst, round>>

CkptStepFinalizeBatch(r, digests) ==
    /\ hist.batches < MaxCkptBatches
    /\ \E fb \in {LogFinalizeBatch(logs[r], digests)} :
           /\ logs' = [logs EXCEPT ![r] = fb.log]
           /\ ret' = [op |-> "finalize_batch", ok |-> fb.ok, info |-> fb.info,
                      batch |-> fb.batch]
    /\ hist' = [hist EXCEPT !.batches = @ + 1]
    /\ UNCHANGED <<cons, net, loop, cst, round>>

CkptStepFinalizeCheckpoint(r, appstate) ==
    /\ hist.finalizes < MaxCkptFinalizes
    /\ \E fc \in {LogFinalizeCheckpoint(logs[r], appstate)} :
           /\ logs' = [logs EXCEPT ![r] = fc.log]
           /\ ret' = [op |-> "finalize_checkpoint", ok |-> fc.ok, appstate |-> appstate]
    /\ hist' = [hist EXCEPT !.finalizes = @ + 1]
    /\ UNCHANGED <<cons, net, loop, cst, round>>

CkptNext ==
    \/ \E d \in CkptDigests : CkptStepRequest(CkptReplica, d)
    \/ \E m \in CkptMessages : CkptStepConsensus(CkptReplica, m)
    \/ \E d \in CkptDigests : CkptStepFinalizeBatch(CkptReplica, <<d>>)
    \/ \E a \in CkptAppstates : CkptStepFinalizeCheckpoint(CkptReplica, a)

SpecCkpt == CkptInit /\ [][CkptNext]_vars

(***************************************************************************)
(* SpecIndex: SeqNo::index on pairs of sequence numbers of 0..i32::MAX:    *)
(* `other` is one of IndexBases, `self` is IndexOffsets steps ahead of it  *)
(* or behind it in the cyclic sequence space.                              *)
(***************************************************************************)
\* the sequence numbers tried on each side of the constants of index
IndexSlack == 1

\* the sequence number d steps after seq (before it when d < 0), cyclically
SeqShift(seq, d) ==
    IF d >= 0 /\ seq > I32_MAX - d THEN (d - (I32_MAX - seq)) - 1
    ELSE IF d < 0 /\ seq + d < 0 THEN ((seq + d) + I32_MAX) + 1
    ELSE seq + d

IndexNear(x) == (x - IndexSlack)..(x + IndexSlack)

IndexBases ==
    {0, DROP_SEQNO_THRES, 2 * OVERFLOW_THRES_POS, I32_MAX \div 2,
     I32_MAX - (2 * OVERFLOW_THRES_POS), I32_MAX - DROP_SEQNO_THRES, I32_MAX}

IndexOffsets ==
    IndexNear(0) \cup IndexNear(DROP_SEQNO_THRES) \cup IndexNear(-DROP_SEQNO_THRES)
        \cup IndexNear(OVERFLOW_THRES_POS) \cup IndexNear(OVERFLOW_THRES_NEG)
        \cup {2 * OVERFLOW_THRES_POS, 2 * OVERFLOW_THRES_NEG}

IndexInit ==
    /\ hist \in {[self |-> SeqShift(b, d), other |-> b] :
                     b \in IndexBases, d \in IndexOffsets}
    /\ ret = [op |-> "new"]
    /\ cons = Unused /\ logs = Unused /\ net = Unused /\ loop = Unused
    /\ cst = Unused /\ round = Unused

IndexStepIndex ==
    /\ ret.op = "new"
    /\ ret' = [op |-> "index", result |-> SeqNoIndex(hist.self, hist.other)]
    /\ UNCHANGED <<hist, cons, logs, net, loop, cst, round>>

IndexStepPartialCmp ==
    /\ ret.op = "new"
    /\ ret' = [op |-> "partial_cmp", result |-> SeqNoPartialCmp(hist.self, hist.other)]
    /\ UNCHANGED <<hist, cons, logs, net, loop, cst, round>>

IndexNext ==
    \/ IndexStepIndex
    \/ IndexStepPartialCmp

SpecIndex == IndexInit /\ [][IndexNext]_vars

(***************************************************************************)
(* SpecBatch: the pool of requests of one replica's Log, of batch size 2.  *)
(* Clients' requests are inserted (a request may be sent again, with the   *)
(* same digest, while the first is pending or being decided), next_batch   *)
(* collects them and finalize_batch is called on batches of one or two     *)
(* digests, held by the log or not.  The operation of a request is its     *)
(* arrival number.                                                         *)
(***************************************************************************)
\* the requests inserted and the calls of finalize_batch
MaxBatchRequests == 4
MaxBatchFinalizes == 2

BatchReplica == 1
BatchDigests == {1, 2, 3}

\* the batches given to finalize_batch: one digest, or two distinct ones
BatchBatches ==
    {<<d>> : d \in BatchDigests}
        \cup {<<p[1], p[2]>> : p \in {q \in BatchDigests \X BatchDigests : q[1] # q[2]}}

BatchInit ==
    /\ logs = [r \in {BatchReplica} |-> LogNew(2)]
    /\ hist = [requests |-> 0, finalizes |-> 0]
    /\ ret = [op |-> "new"]
    /\ cons = Unused /\ net = Unused /\ loop = Unused /\ cst = Unused
    /\ round = Unused

BatchStepRequest(r, digest) ==
    /\ hist.requests < MaxBatchRequests
    /\ logs' = [logs EXCEPT ![r] =
                   LogInsertRequest(@, StoredRequest(digest, 1000 + digest,
                                                     hist.requests + 1))]
    /\ hist' = [hist EXCEPT !.requests = @ + 1]
    /\ ret' = [op |-> "insert", digest |-> digest]
    /\ UNCHANGED <<cons, net, loop, cst, round>>

BatchStepNextBatch(r) ==
    /\ \E nb \in LogNextBatch(logs[r]) :
           /\ logs' = [logs EXCEPT ![r] = nb.log]
           /\ ret' = [op |-> "next_batch", some |-> nb.some, batch |-> nb.batch]
    /\ UNCHANGED <<hist, cons, net, loop, cst, round>>

BatchStepFinalizeBatch(r, digests) ==
    /\ hist.finalizes < MaxBatchFinalizes
    /\ \E fb \in {LogFinalizeBatch(logs[r], digests)} :
           /\ logs' = [logs EXCEPT ![r] = fb.log]
           /\ ret' = [op |-> "finalize_batch", digests |-> digests, ok |-> fb.ok,
                      info |-> fb.info, batch |-> fb.batch]
    /\ hist' = [hist EXCEPT !.finalizes = @ + 1]
    /\ UNCHANGED <<cons, net, loop, cst, round>>

BatchNext ==
    \/ \E d \in BatchDigests : BatchStepRequest(BatchReplica, d)
    \/ BatchStepNextBatch(BatchReplica)
    \/ \E b \in BatchBatches : BatchStepFinalizeBatch(BatchReplica, b)

SpecBatch == BatchInit /\ [][BatchNext]_vars

(***************************************************************************)
(* SpecSnap: the Logs of two correct replicas that hold the same Complete  *)
(* checkpoint, installed at sequence number PERIOD, and decide the next    *)
(* instance.  Each inserts the request, the PrePrepare, then the Prepares  *)
(* and then the Commits of the same SnapVotes voters as it receives them,  *)
(* in any order, calls finalize_batch and takes a snapshot.                *)
(***************************************************************************)
\* the votes of each kind a replica stores for the instance
SnapVotes == 2

SnapReplicas == {1, 2}
SnapVoters == 1..SnapVotes
SnapSeq == PERIOD + 1

SnapInit ==
    /\ logs = [r \in SnapReplicas |->
                  LogInstallState(LogNew(1), PERIOD, SnapshotAt(TheView, PERIOD, 0))]
    /\ hist = [r \in SnapReplicas |-> [pc |-> "request", rs |-> NoRecoveryState]]
    /\ ret = [op |-> "new"]
    /\ cons = Unused /\ net = Unused /\ loop = Unused /\ cst = Unused
    /\ round = Unused

\* the voters whose vote of a kind replica r has stored
SnapStored(r, kind) ==
    LET stored == IF kind = "PrePrepare" THEN logs[r].declog.pre_prepares
                  ELSE IF kind = "Prepare" THEN logs[r].declog.prepares
                  ELSE logs[r].declog.commits
    IN  {stored[i].header.from : i \in 1..Len(stored)}

SnapStepRequest(r) ==
    /\ hist[r].pc = "request"
    /\ logs' = [logs EXCEPT ![r] = LogInsertRequest(@, StoredRequest(LogDigest, 1000, "op"))]
    /\ hist' = [hist EXCEPT ![r].pc = "PrePrepare"]
    /\ ret' = [op |-> "insert", r |-> r]
    /\ UNCHANGED <<cons, net, loop, cst, round>>

\* Log::insert of the message of a kind from a voter, as process_message
\* calls it on the messages it counts
SnapStepConsensus(r, kind, from) ==
    /\ hist[r].pc = kind
    /\ from \notin SnapStored(r, kind)
    /\ logs' = [logs EXCEPT ![r] =
                   LogInsertConsensus(@, Header(from),
                       ConsensusMessage(SnapSeq, kind,
                           IF kind = "PrePrepare" THEN <<LogDigest>> ELSE <<>>))]
    /\ hist' = [hist EXCEPT ![r].pc =
                   IF kind = "PrePrepare" THEN "Prepare"
                   ELSE IF SnapStored(r, kind) \cup {from} # SnapVoters THEN kind
                   ELSE IF kind = "Prepare" THEN "Commit"
                   ELSE "finalize_batch"]
    /\ ret' = [op |-> "insert", r |-> r]
    /\ UNCHANGED <<cons, net, loop, cst, round>>

SnapStepFinalizeBatch(r) ==
    /\ hist[r].pc = "finalize_batch"
    /\ \E fb \in {LogFinalizeBatch(logs[r], <<LogDigest>>)} :
           /\ logs' = [logs EXCEPT ![r] = fb.log]
           /\ ret' = [op |-> "finalize_batch", r |-> r, ok |-> fb.ok]
    /\ hist' = [hist EXCEPT ![r].pc = "snapshot"]
    /\ UNCHANGED <<cons, net, loop, cst, round>>

SnapStepSnapshot(r) ==
    /\ hist[r].pc = "snapshot"
    /\ \E sn \in {LogSnapshot(logs[r], TheView)} :
           /\ hist' = [hist EXCEPT ![r] = [pc |-> "done", rs |-> sn.rs]]
           /\ ret' = [op |-> "snapshot", r |-> r, ok |-> sn.ok]
    /\ UNCHANGED <<logs, cons, net, loop, cst, round>>

SnapNext ==
    \/ \E r \in SnapReplicas : SnapStepRequest(r)
    \/ \E r \in SnapReplicas : SnapStepConsensus(r, "PrePrepare", TheView.leader)
    \/ \E r \in SnapReplicas, from \in SnapVoters : SnapStepConsensus(r, "Prepare", from)
    \/ \E r \in SnapReplicas, from \in SnapVoters : SnapStepConsensus(r, "Commit", from)
    \/ \E r \in SnapReplicas : SnapStepFinalizeBatch(r)
    \/ \E r \in SnapReplicas : SnapStepSnapshot(r)

SpecSnap == SnapInit /\ [][SnapNext]_vars

(***************************************************************************)
(* SpecServe: a replica that is not recovering serves the state transfer   *)
(* requests of its peers.  Its log starts without a checkpoint; the log    *)
(* begins a checkpoint and finalizes it with the application state, at     *)
(* most MaxServeCheckpoints times.  The replica is handed at most          *)
(* MaxServed requests, and idle ticks (CstProgress::Nil) in between.       *)
(***************************************************************************)
MaxServed == 3
MaxServeCheckpoints == 2

ServeReplica == 1
ServePeers == {2, 3}
ServeSeqs == {0, 5}

ServeRequests ==
    {CstMessage(seq, kind, 0, NoRecoveryState) :
        seq \in ServeSeqs, kind \in {"RequestLatestConsensusSeq", "RequestState"}}

ServeInit ==
    /\ cst = [r \in {ServeReplica} |-> CollabStateTransferNew(CstBaseTimeout)]
    /\ cons = [r \in {ServeReplica} |-> ConsensusNew(0, BatchSize)]
    /\ logs = [r \in {ServeReplica} |-> LogNew(BatchSize)]
    /\ hist = [served |-> 0, checkpoints |-> 0]
    /\ ret = [op |-> "new"]
    /\ net = Unused /\ loop = Unused /\ round = Unused

ServeStepProcess(r, from, m) ==
    /\ hist.served < MaxServed
    /\ \E res \in {CstProcessMessage(cst[r], CstProgressMessage(CstHeader(from, m), m),
                                     TheView, cons[r], logs[r])} :
           /\ cst' = [cst EXCEPT ![r] = res.cs]
           /\ ret' = [op |-> "process_message", status |-> res.status,
                      out |-> res.out, before |-> cst[r].phase,
                      progress |-> "Message", from |-> from, message |-> m]
    /\ hist' = [hist EXCEPT !.served = @ + 1]
    /\ UNCHANGED <<cons, logs, net, loop, round>>

ServeStepNil(r) ==
    /\ \E res \in {CstProcessMessage(cst[r], CstProgressNil, TheView, cons[r], logs[r])} :
           /\ cst' = [cst EXCEPT ![r] = res.cs]
           /\ ret' = [op |-> "process_message", status |-> res.status,
                      out |-> res.out, before |-> cst[r].phase,
                      progress |-> "Nil"]
    /\ UNCHANGED <<hist, cons, logs, net, loop, round>>

ServeStepBeginCheckpoint(r) ==
    /\ hist.checkpoints < MaxServeCheckpoints
    /\ logs[r].checkpoint.kind \in {"None", "Complete"}
    /\ \E bc \in {LogBeginCheckpoint(logs[r], PERIOD * (hist.checkpoints + 1))} :
           /\ logs' = [logs EXCEPT ![r] = bc.log]
           /\ ret' = [op |-> "begin_checkpoint", ok |-> bc.ok]
    /\ hist' = [hist EXCEPT !.checkpoints = @ + 1]
    /\ UNCHANGED <<cst, cons, net, loop, round>>

ServeStepFinalizeCheckpoint(r, appstate) ==
    /\ logs[r].checkpoint.kind \in {"Partial", "PartialWithEarlier"}
    /\ \E fc \in {LogFinalizeCheckpoint(logs[r], appstate)} :
           /\ logs' = [logs EXCEPT ![r] = fc.log]
           /\ ret' = [op |-> "finalize_checkpoint", ok |-> fc.ok]
    /\ UNCHANGED <<hist, cst, cons, net, loop, round>>

ServeNext ==
    \/ \E from \in ServePeers : \E m \in ServeRequests :
           ServeStepProcess(ServeReplica, from, m)
    \/ ServeStepNil(ServeReplica)
    \/ ServeStepBeginCheckpoint(ServeReplica)
    \/ ServeStepFinalizeCheckpoint(ServeReplica, 7)

SpecServe == ServeInit /\ [][ServeNext]_vars

(***************************************************************************)
(* SpecExec: the executor thread and the tasks it spawns.  The service is  *)
(* a counter of the operations applied, and the reply of an operation is   *)
(* the counter after it.  The handle queues at most MaxExecQueued batches  *)
(* on the mpsc channel e_rx; the thread takes them one at a time, applies  *)
(* the updates of the batch, and spawns a task on the runtime that sends   *)
(* the result on the system channel.  The runtime runs the spawned tasks   *)
(* on its worker threads, each when it is scheduled.  hist.executed counts *)
(* the batches executed; a task and the message it posts carry the number  *)
(* n of their batch in execution order and the batch itself, which the     *)
(* code does not hold, for the properties to refer to.                     *)
(***************************************************************************)
MaxExecQueued == 3


Update(from, digest, operation) ==
    [from |-> from, digest |-> digest, operation |-> operation]

UpdateReply(to, digest, payload) ==
    [to |-> to, digest |-> digest, payload |-> payload]

ExecBatches ==
    {<<Update(1000, 1, 1)>>, <<Update(1001, 2, 2)>>,
     <<Update(1000, 1, 1), Update(1001, 2, 2)>>,
     <<Update(1001, 2, 2), Update(1000, 1, 1)>>}

\* Service::update of the counter service
ServiceUpdate(state, req) == [state |-> state + 1, reply |-> state + 1]

\* the loop over batch.into_inner(): the state and the reply batch afterwards
RECURSIVE ExecuteBatch(_, _)
ExecuteBatch(state, batch) ==
    IF batch = <<>> THEN [state |-> state, replies |-> <<>>]
    ELSE LET u == ServiceUpdate(state, batch[1].operation)
             rest == ExecuteBatch(u.state, Tail(batch))
         IN  [state |-> rest.state,
              replies |-> <<UpdateReply(batch[1].from, batch[1].digest, u.reply)>>
                              \o rest.replies]

ExecInit ==
    /\ hist = [e_rx |-> <<>>, state |-> 0, queued |-> 0, executed |-> 0,
               spawned |-> {}, system |-> <<>>]
    /\ ret = [op |-> "new"]
    /\ cons = Unused /\ logs = Unused /\ net = Unused /\ loop = Unused
    /\ cst = Unused /\ round = Unused

ExecStepQueueUpdate(batch) ==
    /\ hist.queued < MaxExecQueued
    /\ hist' = [hist EXCEPT !.e_rx = Append(@, [kind |-> "Update", batch |-> batch]),
                            !.queued = @ + 1]
    /\ ret' = [op |-> "queue_update"]
    /\ UNCHANGED <<cons, logs, net, loop, cst, round>>

ExecStepQueueUpdateAndGetAppstate(batch) ==
    /\ hist.queued < MaxExecQueued
    /\ hist' = [hist EXCEPT !.e_rx = Append(@, [kind |-> "UpdateAndGetAppstate",
                                                batch |-> batch]),
                            !.queued = @ + 1]
    /\ ret' = [op |-> "queue_update_and_get_appstate"]
    /\ UNCHANGED <<cons, logs, net, loop, cst, round>>

\* one iteration of the loop of the executor thread, up to rt::spawn
ExecStepExecute ==
    /\ hist.e_rx # <<>>
    /\ \E rq \in {Head(hist.e_rx)} : \E ex \in {ExecuteBatch(hist.state, rq.batch)} :
           hist' = [hist EXCEPT
                        !.e_rx = Tail(@),
                        !.state = ex.state,
                        !.executed = @ + 1,
                        !.spawned = @ \cup
                            {[n |-> hist.executed + 1,
                              batch |-> rq.batch,
                              kind |-> IF rq.kind = "Update" THEN "ExecutionFinished"
                                       ELSE "ExecutionFinishedWithAppstate",
                              replies |-> ex.replies,
                              appstate |-> IF rq.kind = "Update" THEN -1
                                           ELSE ex.state]}]
    /\ ret' = [op |-> "execute"]
    /\ UNCHANGED <<cons, logs, net, loop, cst, round>>

\* a spawned task runs: system_tx.send(m)
ExecStepDeliver(task) ==
    /\ task \in hist.spawned
    /\ hist' = [hist EXCEPT !.spawned = @ \ {task}, !.system = Append(@, task)]
    /\ ret' = [op |-> "send", n |-> task.n]
    /\ UNCHANGED <<cons, logs, net, loop, cst, round>>

ExecNext ==
    \/ \E b \in ExecBatches : ExecStepQueueUpdate(b)
    \/ \E b \in ExecBatches : ExecStepQueueUpdateAndGetAppstate(b)
    \/ ExecStepExecute
    \/ \E task \in hist.spawned : ExecStepDeliver(task)

SpecExec == ExecInit /\ [][ExecNext]_vars

(***************************************************************************)
(* SpecReader: the reader tasks that handle_connected_rx spawns for the    *)
(* connections of the peers 2 and 3.  A peer writes at most MaxWritten    *)
(* frames on its connection, each a header and a payload that the          *)
(* receiver can deserialize or not.  A task reads the header of the next   *)
(* frame, then its payload, and sends System(header, message) on the       *)
(* channel of the node; a read_exact fails when the connection breaks,     *)
(* which can happen at any read.  The tasks run on the runtime, each when  *)
(* it is scheduled.  net.inbound holds the messages sent, each with the    *)
(* connection of the task that sent it, and hist holds, per connection,    *)
(* the number of frames posted when the first error occurred (-1 before),  *)
(* for the properties to refer to.                                         *)
(***************************************************************************)
MaxWritten == 3

ReaderConns == {1, 2}
ReaderPeer(conn) == conn + 1

Frame(from, id, valid) == [header |-> [from |-> from, id |-> id], valid |-> valid]

ReaderTaskNew == [pc |-> "read_header", pos |-> 0, header |-> NoHeader]

\* sock.read_exact of the header, and Header::deserialize_from
ReadHeader(task, frame, io) ==
    IF io = "Err"
    THEN [task |-> [task EXCEPT !.pc = "announce"], out |-> <<>>]
    ELSE [task |-> [task EXCEPT !.pc = "read_payload", !.header = frame.header],
          out |-> <<>>]

\* a reader that skips a payload it cannot deserialize
ReadPayloadSkipGarbled(task, frame, io) ==
    IF io = "Err"
    THEN [task |-> [task EXCEPT !.pc = "announce"], out |-> <<>>]
    ELSE IF ~frame.valid
    THEN [task |-> [task EXCEPT !.pc = "read_header", !.pos = @ + 1], out |-> <<>>]
    ELSE [task |-> [task EXCEPT !.pc = "read_header", !.pos = @ + 1],
          out |-> <<BootMessage("System", task.header.from, task.header)>>]

\* sock.read_exact of the payload, D::deserialize_message, and
\* tx.send(Message::System(header, message))
ReadPayload(task, frame, io) ==
    IF io = "Err"
    THEN [task |-> [task EXCEPT !.pc = "announce"], out |-> <<>>]
    ELSE IF ~frame.valid
    THEN [task |-> [task EXCEPT !.pc = "announce"], out |-> <<>>]
    ELSE [task |-> [task EXCEPT !.pc = "read_header", !.pos = @ + 1],
          out |-> <<BootMessage("System", task.header.from, task.header)>>]

\* after the loop: tx.send(Message::DisconnectedRx(Some(peer_id)))
Announce(task, peer_id) ==
    [task |-> [task EXCEPT !.pc = "done"],
     out |-> <<BootMessage("DisconnectedRx", peer_id, "none")>>]

\* the messages of out, sent by the task of the connection conn
ReaderPosted(conn, out) == [i \in 1..Len(out) |-> [conn |-> conn, m |-> out[i]]]

ReaderSystemOf(conn) ==
    Cardinality({i \in 1..Len(net.inbound) :
                    /\ net.inbound[i].conn = conn
                    /\ net.inbound[i].m.kind = "System"})

ReaderInit ==
    /\ net = [written |-> [c \in ReaderConns |-> <<>>],
              task |-> [c \in ReaderConns |-> ReaderTaskNew],
              inbound |-> <<>>]
    /\ hist = [c \in ReaderConns |-> -1]
    /\ ret = [op |-> "handle_connected_rx"]
    /\ cons = Unused /\ logs = Unused /\ loop = Unused /\ cst = Unused
    /\ round = Unused

ReaderStepWrite(conn, valid) ==
    /\ Len(net.written[conn]) < MaxWritten
    /\ net' = [net EXCEPT !.written[conn] =
                   Append(@, Frame(ReaderPeer(conn), Len(@) + 1, valid))]
    /\ ret' = [op |-> "write", conn |-> conn]
    /\ UNCHANGED <<hist, cons, logs, loop, cst, round>>

ReaderStepReadHeader(conn, io) ==
    /\ net.task[conn].pc = "read_header"
    /\ io = "Ok" => net.task[conn].pos < Len(net.written[conn])
    /\ \E frame \in {IF io = "Ok" THEN net.written[conn][net.task[conn].pos + 1]
                     ELSE Frame(NoNodeId, 0, FALSE)} :
       \E res \in {ReadHeader(net.task[conn], frame, io)} :
           net' = [net EXCEPT !.task[conn] = res.task,
                              !.inbound = @ \o ReaderPosted(conn, res.out)]
    /\ hist' = [hist EXCEPT ![conn] =
                    IF @ = -1 /\ io = "Err" THEN ReaderSystemOf(conn) ELSE @]
    /\ ret' = [op |-> "read_header", conn |-> conn, io |-> io]
    /\ UNCHANGED <<cons, logs, loop, cst, round>>

ReaderStepReadPayload(conn, io) ==
    /\ net.task[conn].pc = "read_payload"
    /\ \E frame \in {net.written[conn][net.task[conn].pos + 1]} :
           /\ \E res \in {ReadPayload(net.task[conn], frame, io)} :
                  net' = [net EXCEPT !.task[conn] = res.task,
                                     !.inbound = @ \o ReaderPosted(conn, res.out)]
           /\ hist' = [hist EXCEPT ![conn] =
                           IF @ = -1 /\ (io = "Err" \/ ~frame.valid)
                           THEN ReaderSystemOf(conn) ELSE @]
    /\ ret' = [op |-> "read_payload", conn |-> conn, io |-> io]
    /\ UNCHANGED <<cons, logs, loop, cst, round>>

ReaderStepAnnounce(conn) ==
    /\ net.task[conn].pc = "announce"
    /\ \E res \in {Announce(net.task[conn], ReaderPeer(conn))} :
           net' = [net EXCEPT !.task[conn] = res.task,
                              !.inbound = @ \o ReaderPosted(conn, res.out)]
    /\ ret' = [op |-> "announce", conn |-> conn]
    /\ UNCHANGED <<hist, cons, logs, loop, cst, round>>

ReaderNext ==
    \/ \E conn \in ReaderConns, valid \in BOOLEAN : ReaderStepWrite(conn, valid)
    \/ \E conn \in ReaderConns, io \in {"Ok", "Err"} : ReaderStepReadHeader(conn, io)
    \/ \E conn \in ReaderConns, io \in {"Ok", "Err"} : ReaderStepReadPayload(conn, io)
    \/ \E conn \in ReaderConns : ReaderStepAnnounce(conn)

SpecReader == ReaderInit /\ [][ReaderNext]_vars

(***************************************************************************)
(* Claims checked under SpecTbo                                            *)
(***************************************************************************)
TboBuffers == {"pre_prepares", "prepares", "commits"}

BufferOf(kind) ==
    IF kind = "PrePrepare" THEN "pre_prepares"
    ELSE IF kind = "Prepare" THEN "prepares"
    ELSE "commits"

\* slot j (1-based) of a phase buffer, empty when the buffer is shorter
SlotOf(tbo, j) == IF j <= Len(tbo) THEN tbo[j] ELSE <<>>

C9_QueueStep ==
    ret'.op = "queue" =>
        LET q == cons[TboReplica].tbo
            q2 == cons'[TboReplica].tbo
            h == ret'.header
            m == ret'.message
            ix == SeqNoIndex(m.seq, q.curr_seq)
            buf == BufferOf(m.kind)
        IN  /\ ix.tag = "Left" => q2 = q
            /\ ix.tag = "Right" =>
                   /\ \A b \in TboBuffers \ {buf} : q2[b] = q[b]
                   /\ Len(q2[buf]) = IF Len(q[buf]) > ix.idx + 1
                                     THEN Len(q[buf]) ELSE ix.idx + 1
                   /\ \A j \in 1..Len(q2[buf]) :
                          q2[buf][j] = IF j = ix.idx + 1
                                       THEN Append(SlotOf(q[buf], j), Stored(h, m))
                                       ELSE SlotOf(q[buf], j)

C9_NoSlotAboveThreshold ==
    \A b \in TboBuffers : Len(cons[TboReplica].tbo[b]) <= DROP_SEQNO_THRES + 1

\* C9: queue(h, m) with index Left(_) changes no phase buffer; with Right(i)
\* it appends (h, m) at the back of slot i of the buffer of m's kind, creating
\* the empty slots up to i, and changes no other slot or buffer; no message is
\* ever stored at a slot index above DROP_SEQNO_THRES.
C9_TboDropPolicy == [][C9_QueueStep]_vars /\ []C9_NoSlotAboveThreshold

\* a queue that stored a second message in the last slot of the window, one
\* instance after the first was stored there
C9_Witness ==
    /\ ret.op = "queue"
    /\ SeqNoIndex(ret.message.seq, cons[TboReplica].tbo.curr_seq)
           = Right(DROP_SEQNO_THRES)
    /\ Len(cons[TboReplica].tbo[BufferOf(ret.message.kind)][DROP_SEQNO_THRES + 1]) = 1
    /\ Len(cons[TboReplica].tbo[BufferOf(ret.message.kind)][DROP_SEQNO_THRES]) = 1


(***************************************************************************)
(* Claims checked under SpecLog                                            *)
(***************************************************************************)
CheckpointKind(r) == logs[r].checkpoint.kind

\* the operations decided since the last Complete checkpoint was begun
\* (since the start when there is none)
DecidedSinceCheckpoint(r) ==
    LET cp == logs[r].checkpoint
    IN  IF cp.kind = "Complete" THEN hist.executed - cp.checkpoint.appstate
        ELSE IF cp.kind = "PartialWithEarlier" THEN hist.executed - cp.earlier.appstate
        ELSE hist.executed

C7_FinalizeBatchStep ==
    (ret'.op = "finalize_batch" /\ hist'.calls = hist.calls + 1) =>
        /\ ret'.ok
        /\ ret'.info = "BeginCheckpoint" <=> (hist.seq > 0 /\ hist.seq % PERIOD = 0)
        /\ ret'.info = "BeginCheckpoint" <=> (hist'.calls % PERIOD = 1 /\ hist'.calls > 1)
        /\ ret'.info = "BeginCheckpoint" =>
               \/ /\ CheckpointKind(LogReplica) = "None"
                  /\ logs'[LogReplica].checkpoint = CheckpointPartial(hist.seq)
               \/ /\ CheckpointKind(LogReplica) = "Complete"
                  /\ logs'[LogReplica].checkpoint =
                         CheckpointPartialWithEarlier(hist.seq,
                             logs[LogReplica].checkpoint.checkpoint)
        /\ ret'.info # "BeginCheckpoint" =>
               /\ ret'.info = "Nil"
               /\ logs'[LogReplica].checkpoint = logs[LogReplica].checkpoint

C8_SnapshotStep ==
    ret'.op = "snapshot" =>
        LET res == ret'.result
            log == logs[LogReplica]
        IN  /\ logs' = logs
            /\ res.ok <=> log.checkpoint.kind = "Complete"
            /\ ~res.ok => res.err = "Log"
            /\ hist.appstate # <<>> => ~res.ok
            /\ res.ok => /\ res.rs.view = TheView
                         /\ res.rs.checkpoint = log.checkpoint.checkpoint
                         /\ res.rs.requests = log.decided
                         /\ res.rs.declog = log.declog
            /\ (ret.op = "finalize_checkpoint" /\ ret.ok) =>
                   /\ res.ok
                   /\ res.rs.checkpoint = Checkpoint(hist.begin_seq, ret.appstate)

\* C8: snapshot(view) succeeds exactly when the checkpoint state is Complete;
\* in None, Partial and PartialWithEarlier, so from a BeginCheckpoint until the
\* matching finalize_checkpoint(S), it fails with a Log error and leaves the
\* log unchanged; right after finalize_checkpoint(S) it succeeds and returns
\* the checkpoint (sequence number of the begin, app state S) together with
\* the current decided operations and decision log.
C8_SnapshotOnlyWhenComplete == [][C8_SnapshotStep]_vars

C8_Witness ==
    /\ ret.op = "snapshot" /\ ret.result.ok
    /\ ret.result.rs.checkpoint = Checkpoint(PERIOD, PERIOD + 1)
    /\ Len(ret.result.rs.requests) > 0
    /\ Len(ret.result.rs.declog.pre_prepares) > 0


\* the operations of the instances cp_seq + 1 .. seq - 1: every instance
\* decides the one operation that carries its sequence number
OperationsAfter(cp_seq, seq) == [i \in 1..((seq - 1) - cp_seq) |-> cp_seq + i]

\* C18: in every state where snapshot succeeds, its requests are the
\* operations decided after the sequence number of the checkpoint, so that
\* replaying them on the app state of the checkpoint gives the state reached
\* by executing every batch finalized so far, also when batches are finalized
\* between begin_checkpoint and finalize_checkpoint
C18_SnapshotConsistency ==
    (ret.op = "snapshot" /\ ret.result.ok) =>
        /\ ret.result.rs.requests =
               OperationsAfter(ret.result.rs.checkpoint.seq, hist.seq)
        /\ ret.result.rs.checkpoint.appstate + Len(ret.result.rs.requests) = hist.executed

\* a snapshot taken after a batch was finalized between begin_checkpoint and
\* finalize_checkpoint: its requests are empty, and the operation of that
\* batch is in neither the app state of the checkpoint nor the requests
C18_LostOperation ==
    /\ ret.op = "snapshot" /\ ret.result.ok
    /\ ret.result.rs.checkpoint = Checkpoint(PERIOD, PERIOD + 1)
    /\ ret.result.rs.requests = <<>>
    /\ hist.executed = PERIOD + 2

(***************************************************************************)
(* Claims checked under SpecInstall                                        *)
(***************************************************************************)
\* C6: after install_recovery_state(rs, ...) returns Ok,
\* consensus.sequence_number() is greater than or equal to the last decided
\* sequence number contained in rs, whatever the distance between the
\* replica's previous sequence number and that one (including rs whose
\* decision log holds no PrePrepare), and log.decision_log() equals rs.declog.
C6_InstallReachesRecoveryState ==
    (ret.op = "install_recovery_state" /\ ret.ok) =>
        /\ SequenceNumber(cons[InstallReplica]) >= LastDecided(ret.rs)
        /\ logs[InstallReplica].declog = ret.rs.declog

\* the part of C6 that does hold: the decision log is the one of rs, and the
\* sequence number is reached when rs holds a PrePrepare at most
\* OVERFLOW_THRES_POS ahead
C6_InstallNear ==
    (ret.op = "install_recovery_state" /\ ret.ok) =>
        /\ logs[InstallReplica].declog = ret.rs.declog
        /\ logs[InstallReplica].curr_seq = SequenceNumber(cons[InstallReplica])
        /\ (/\ Len(ret.rs.declog.pre_prepares) > 0
            /\ LastDecided(ret.rs) - ret.before <= OVERFLOW_THRES_POS)
               => SequenceNumber(cons[InstallReplica]) >= LastDecided(ret.rs)

C6_FarAhead ==
    /\ ret.op = "install_recovery_state" /\ ret.ok
    /\ Len(ret.rs.declog.pre_prepares) > 0
    /\ SequenceNumber(cons[InstallReplica]) < LastDecided(ret.rs)


(***************************************************************************)
(* Claims checked under SpecCst                                            *)
(***************************************************************************)
\* the replicas whose counted replies of the round carry the state
RepliersOf(state) ==
    {hist.replies[i].from : i \in {j \in 1..Len(hist.replies) :
                                      hist.replies[j].message.state = state}}

\* C4: if a state-fetch round started by request_latest_state concludes with
\* CstStatus::State(rs), then at least f+1 distinct replicas replied in that
\* round (same cst_seq) with a RecoveryState whose header digest is the same
\* as that of rs.
C4_StateQuorum ==
    (ret.op = "process_message" /\ ret.status.tag = "State") =>
        Cardinality(RepliersOf(ret.status.state)) >= TheView.f + 1

C4_OneReplier ==
    /\ ret.op = "process_message" /\ ret.status.tag = "State"
    /\ ret.before = "ReceivingState"
    /\ Cardinality(RepliersOf(ret.status.state)) = 1

\* the non-negative sequence numbers among the counted replies of the round
CountedCids == {hist.replies[i].message.cid : i \in 1..Len(hist.replies)} \cap Nat

LargestCid == CHOOSE c \in CountedCids : \A d \in CountedCids : d <= c

CarriedBy(c) ==
    Cardinality({i \in 1..Len(hist.replies) : hist.replies[i].message.cid = c})

\* C5: a discovery round concludes exactly on the (2f+1)-th counted reply
\* (kind ReplyLatestConsensusSeq, seq equal to the current cst_seq), in
\* whatever order the replies arrive; it yields SeqNo(c) if and only if c, the
\* largest non-negative sequence number among the counted replies, was
\* carried by more than f of them, and yields RequestLatestCid otherwise.
C5_LatestSeqDiscovery ==
    (ret.op = "process_message" /\ ret.before = "ReceivingCid"
        /\ ret.progress = "Message") =>
        LET cs == cst[CstReplica]
            concluded == cs.phase.name = "Init"
        IN  /\ concluded <=> (ret.counted /\ Len(hist.replies) = Quorum(TheView))
            /\ concluded =>
                   IF CountedCids # {} /\ CarriedBy(LargestCid) > TheView.f
                   THEN ret.status = CstStatusSeqNo(LargestCid)
                   ELSE ret.status = CstStatus("RequestLatestCid")
            /\ ~concluded =>
                   /\ ret.status = CstStatus("Running")
                   /\ cs.phase = CstReceivingCid(Len(hist.replies))

C5_Witness ==
    /\ ret.op = "process_message" /\ ret.before = "ReceivingCid"
    /\ ret.status = CstStatusSeqNo(42)
    /\ Len(hist.replies) = 3
    /\ hist.replies[1].message.cid = 0
    /\ hist.replies[2].message.cid = 42
    /\ hist.replies[3].message.cid = 42

\* the last call was the process_message that concluded the round: it
\* counted the reply that completed the quorum
RoundConcluded ==
    /\ ret.op = "process_message" /\ ret.counted
    /\ Len(hist.replies) = Quorum(TheView)

\* C19: whenever a recovery round concludes - the discovery round yielding
\* SeqNo or RequestLatestCid, the state round yielding State or
\* RequestState - the CST phase is Init again
C19_PhaseCycle ==
    RoundConcluded =>
        /\ ret.status.tag \in {"SeqNo", "RequestLatestCid", "State", "RequestState"}
        /\ cst[CstReplica].phase = CstPhaseInit

\* the state round has concluded yielding State, and the phase is still
\* ReceivingState
C19_StillReceivingState ==
    /\ RoundConcluded
    /\ ret.status.tag = "State"
    /\ cst[CstReplica].phase = CstReceivingState(Quorum(TheView) - 1)

\* the request of sequence number seq is the last one issued, and its round
\* has not concluded
RequestInProgress(seq) ==
    /\ hist.rounds > 0
    /\ SeqNoNext(seq) = cst[CstReplica].cst_seq
    /\ Len(hist.replies) < Quorum(TheView)

C20_TimedOutStep ==
    (ret'.op = "timed_out" /\ hist'.timeouts = hist.timeouts + 1) =>
        IF RequestInProgress(ret'.seq)
        THEN /\ cst'[CstReplica] =
                    [cst[CstReplica] EXCEPT !.curr_timeout = @ * 2]
             /\ ret'.status =
                    IF cst[CstReplica].phase.name = "ReceivingCid"
                    THEN CstStatus("RequestLatestCid") ELSE CstStatus("RequestState")
        ELSE /\ cst' = cst
             /\ ret'.status = CstStatus("Nil")

\* C20: a Timeout(Cst(seq)) that fires for a request that has concluded, or
\* after a newer request was issued, makes timed_out return Nil without
\* doubling curr_timeout; only a timeout of the request still in progress
\* doubles curr_timeout and yields RequestLatestCid or RequestState
\* according to the phase
C20_StaleTimeoutIgnored == [][C20_TimedOutStep]_vars

\* the timeout of a state request whose round had concluded has doubled
\* curr_timeout and asked for a retry
C20_StaleTimeoutRetried ==
    /\ ret.op = "timed_out"
    /\ ret.status = CstStatus("RequestState")
    /\ Len(hist.replies) = Quorum(TheView)
    /\ cst[CstReplica].curr_timeout = 2 * CstBaseTimeout

(***************************************************************************)
(* Claims checked under SpecNet and LiveNet                                *)
(***************************************************************************)
\* the messages of a kind and a sequence number in a sequence of messages
CountOf(msgs, kind, seq) ==
    Cardinality({i \in 1..Len(msgs) : msgs[i].kind = kind /\ msgs[i].seq = seq})

\* the stored messages of a sequence number in a buffer of the decision log
StoredOf(stored, seq) ==
    Cardinality({i \in 1..Len(stored) : stored[i].message.seq = seq})

\* C1: no two honest replicas return Decided for the same sequence number
\* with different digests, whatever the f Byzantine replicas send
C1_Agreement ==
    \A r1, r2 \in NetHonest :
        \A i \in 1..Len(hist.decided[r1]), j \in 1..Len(hist.decided[r2]) :
            hist.decided[r1][i].seq = hist.decided[r2][j].seq
                => hist.decided[r1][i].digests = hist.decided[r2][j].digests

\* replica 2 decided the batch of the PrePrepare replica 3 forged, and the
\* leader decided its own
C1_ForgedDecision ==
    /\ hist.decided[0] = <<[seq |-> 0, digests |-> <<1>>]>>
    /\ hist.decided[2] = <<[seq |-> 0, digests |-> <<2>>]>>

\* the leader has broadcast the PrePrepare of sequence number 0
NetProposed == CountOf(hist.sent[TheView.leader], "PrePrepare", 0) > 0

NetAllDecided == \A r \in NetHonest : hist.decided[r] # <<>>

\* C2: under fair delivery and polling, the PrePrepare a correct leader
\* broadcasts is eventually decided at every honest replica
C2_Liveness == NetProposed ~> NetAllDecided

\* the honest replicas wait in node.receive() with empty channels, two
\* Prepares counted, and replica 3 has sent nothing
C2_Stuck ==
    /\ hist.byz = 0
    /\ NetProposed
    /\ \A r \in NetHonest :
           /\ loop[r] = "recv" /\ net[r] = <<>>
           /\ cons[r].phase = PhasePreparing(2)

\* C3: a replica that is not the leader broadcasts one Prepare when it has
\* processed the PrePrepare of the sequence number, and the leader none; a
\* replica broadcasts one Commit when it has processed 2f+1 Prepares, and
\* none before; it returns Decided when it has processed 2f+1 Commits, not
\* before, and with the digests of the PrePrepare it processed
C3_ThreePhase ==
    \A r \in NetHonest :
        LET declog == logs[r].declog
            accepted == StoredOf(declog.pre_prepares, 0)
        IN  /\ accepted <= 1
            /\ CountOf(hist.sent[r], "Prepare", 0) =
                   (IF r # TheView.leader THEN accepted ELSE 0)
            /\ StoredOf(declog.prepares, 0) <= Quorum(TheView)
            /\ CountOf(hist.sent[r], "Commit", 0) =
                   (IF StoredOf(declog.prepares, 0) = Quorum(TheView) THEN 1 ELSE 0)
            /\ StoredOf(declog.commits, 0) <= Quorum(TheView)
            /\ Len(hist.decided[r]) =
                   (IF StoredOf(declog.commits, 0) = Quorum(TheView) THEN 1 ELSE 0)
            /\ hist.decided[r] # <<>> =>
                   /\ accepted = 1
                   /\ hist.decided[r][1].digests = declog.pre_prepares[1].message.digests

\* every honest replica has decided the batch the leader proposed
C3_Witness ==
    /\ \A r \in NetHonest : hist.decided[r] = <<[seq |-> 0, digests |-> <<1>>]>>
    /\ CountOf(hist.sent[0], "Prepare", 0) = 0
    /\ CountOf(hist.sent[1], "Prepare", 0) = 1
    /\ CountOf(hist.sent[2], "Commit", 0) = 1

\* slot 0 of a phase buffer
SlotZero(c, buf) == IF Len(c.tbo[buf]) = 0 THEN <<>> ELSE c.tbo[buf][1]

\* the phases that come before the phase of a Prepare, of a Commit
PhasesBefore(kind) ==
    IF kind = "Prepare" THEN {"Init", "PrePreparing", "PreparingRequests"}
    ELSE {"Init", "PrePreparing", "PreparingRequests", "Preparing"}

BufferOfKind(kind) == IF kind = "Prepare" THEN "prepares" ELSE "commits"

PhaseOfKind(kind) == IF kind = "Prepare" THEN "Preparing" ELSE "Committing"

\* the step is an iteration of the loop of replica r
NetStepOf(r) == ret'.op \in {"poll", "receive"} /\ ret'.r = r

C10_Step ==
    \A r \in NetHonest, kind \in {"Prepare", "Commit"} :
        LET buf == BufferOfKind(kind)
            slot == SlotZero(cons[r], buf)
            after == SlotZero(cons'[r], buf)
            polled == /\ NetStepOf(r) /\ ret'.op = "poll"
                      /\ ret'.status.tag = "NextMessage"
                      /\ slot # <<>>
                      /\ ret'.status.msg = Head(slot)
        IN  \* received before its phase, the message is put at the back of slot 0
            /\ ( /\ NetStepOf(r) /\ ret'.op = "receive"
                 /\ ret'.status.msg.message.kind = kind
                 /\ ret'.status.msg.message.seq = SequenceNumber(cons[r])
                 /\ cons[r].phase.name \in PhasesBefore(kind) )
                   => after = Append(slot, ret'.status.msg)
            \* a poll in the phase, the queue signalled, yields the head of slot 0
            /\ ( /\ NetStepOf(r) /\ loop[r] = "poll"
                 /\ cons[r].phase.name = PhaseOfKind(kind)
                 /\ cons[r].tbo.get_queue
                 /\ slot # <<>> )
                   => polled
            \* and until the instance ends, slot 0 loses its head to poll only
            /\ \/ hist'.decided[r] # hist.decided[r]
               \/ after = slot
               \/ polled /\ after = Tail(slot)
               \/ /\ NetStepOf(r) /\ ret'.op = "receive"
                  /\ after = Append(slot, ret'.status.msg)

C11_SeqNoAlgebra ==
    ret.op = "next" => ret.index = Right(1) /\ ret.self = Right(0)

\* next() has wrapped from i32::MAX to 0
C11_Witness ==
    /\ ret.op = "next" /\ ret.of = I32_MAX /\ ret.next = 0
    /\ ret.index = Right(1)

\* C12 (as the code has it): from 0, next() gives 1, 2, ... up to the
\* largest value, which is reached after as many applications; one more
\* application gives 0 again, and the 32-bit next() agrees with the narrow
\* one taken at 32 bits
C12_WrapAround ==
    /\ (hist.nexts >= 0 /\ hist.nexts <= WidthMax(SeqWidth)) => hist.narrow = hist.nexts
    /\ hist.nexts = WidthMax(SeqWidth) + 1 => hist.narrow = 0
    /\ ret.op = "next" => ret.next = SeqNoNextWidth(ret.of, 32)

\* the narrow sequence number is back at 0
C12_Witness == hist.nexts = WidthMax(SeqWidth) + 1 /\ hist.narrow = 0

\* C12 as stated: from 0, after i32::MAX applications of next() the
\* sequence number is 0 again
C12_AsStated == hist.nexts = WidthMax(SeqWidth) => hist.narrow = 0

(***************************************************************************)
(* Claims checked under SpecHeader                                         *)
(***************************************************************************)
\* C13: a header serialized into a buffer of Header::LENGTH bytes (or more)
\* and deserialized from that buffer comes back equal in every field; on a
\* shorter buffer serialize_into and deserialize_from return an error of
\* kind CommunicationMessage, and the buffer is left as it was
C13_HeaderRoundTrip ==
    /\ ret.op \in {"serialize_into", "deserialize_from"} =>
           /\ ret.ok = (Len(hist.given) >= HEADER_LENGTH)
           /\ ~ret.ok => ret.err = "CommunicationMessage" /\ hist.buf = hist.given
           /\ Len(hist.buf) = Len(hist.given)
    /\ (ret.op = "deserialize_from" /\ ret.ok) => ret.header = hist.header

\* a header with fields of several bytes has made the round trip through a
\* buffer of Header::LENGTH bytes
C13_Witness ==
    /\ ret.op = "deserialize_from" /\ ret.ok
    /\ Len(hist.buf) = HEADER_LENGTH
    /\ ret.header = MessageHeader(1, 256, 65536, I32_MAX,
                                  [i \in 1..SIGNATURE_LENGTH |-> i])

(***************************************************************************)
(* Claims checked under SpecBoot                                           *)
(***************************************************************************)
\* C14: bootstrap returns Ok only after it has received, for every other
\* replica p, a ConnectedTx(p) and a ConnectedRx(p), so that the node holds
\* a send socket to every other replica
C14_BothDirections ==
    net[BootId].status = "Ok" =>
        \A p \in BootReplicas :
            /\ hist.tx[p] = "ConnectedTx" /\ hist.rx[p] >= 1
            /\ p \in net[BootId].peer_tx

\* bootstrap has returned Ok on two accepted connections of replica 1, with
\* no send socket to it
C14_NoSendSocket ==
    /\ net[BootId].status = "Ok"
    /\ hist.rx[1] = 2 /\ hist.tx[1] = "None"
    /\ 1 \notin net[BootId].peer_tx

\* C15: once a DisconnectedTx or DisconnectedRx is received during
\* bootstrap, bootstrap returns an error of kind Communication and not Ok;
\* the rogue list returned holds the other messages that are not
\* connection events, in the order they arrived
C15_DisconnectionFatal ==
    /\ hist.disconnected => net[BootId].status = "Err(Communication)"
    /\ net[BootId].status = "Err(Communication)" => hist.disconnected
    /\ net[BootId].status = "Ok" => net[BootId].rogue = hist.others

\* bootstrap has returned Ok with two rogue messages; or an error after
\* every peer but one had connected both ways
C15_Witness ==
    \/ /\ net[BootId].status = "Ok"
       /\ net[BootId].rogue = <<BootMessage("System", 2, "b"), BootMessage("System", 1, "a")>>
    \/ /\ net[BootId].status = "Err(Communication)"
       /\ ret.message = BootMessage("DisconnectedRx", NoNodeId, "none")
       /\ net[BootId].c[1] = 2 /\ net[BootId].c[2] = 2 /\ net[BootId].c[3] = 1

(***************************************************************************)
(* Claims checked under SpecAccept                                         *)
(***************************************************************************)
\* the connections whose first header is read and is well formed, and is
\* addressed to another node or goes from a client to a client
Misaddressed(r) ==
    {k \in 1..Len(hist.conns) :
        /\ hist.conns[k].fault = "none"
        /\ \/ hist.conns[k].to # r
           \/ hist.conns[k].from >= net[r].first_cli /\ r >= net[r].first_cli}

\* the messages posted that carry the socket of connection k
PostedOf(k) ==
    {i \in 1..Len(hist.sent) :
        /\ hist.sent[i].kind \in {"ConnectedRx", "System"}
        /\ hist.sent[i].payload.conn = k}

\* C16: when the first header of an accepted connection has `to` different
\* from the receiver's id, or comes from a client while the receiver is a
\* client, the accept task posts DisconnectedRx(None), no ConnectedRx is
\* posted for the socket and no frame of it is delivered as a System message
C16_HandshakeRejection ==
    \A r \in DOMAIN net : \A k \in Misaddressed(r) :
        /\ hist.conns[k].posted = BootMessage("DisconnectedRx", NoNodeId, "none")
        /\ PostedOf(k) = {}
        /\ \A sock \in net[r].rx : sock.conn # k

\* a connection addressed to another node, on which the peer wrote a frame,
\* was rejected, while a frame of a second connection has been delivered; or
\* a client has rejected the connection of a client addressed to it
C16_Witness ==
    \E r \in DOMAIN net :
        /\ Len(hist.conns) = 2
        /\ 1 \in Misaddressed(r)
        /\ hist.conns[1].frames = 1
        /\ \/ /\ hist.conns[1].to # r
              /\ \E i \in PostedOf(2) : hist.sent[i].kind = "System"
           \/ /\ hist.conns[1].to = r
              /\ net[r].status = "Err(Communication)"

(***************************************************************************)
(* Claims checked under SpecPropose                                        *)
(***************************************************************************)
\* C17: propose has an effect only when the phase is Init and the node is
\* the leader of the view: then it broadcasts one PrePrepare(curr_seq,
\* digests) and moves to PrePreparing; in every other case it broadcasts
\* nothing and leaves the consensus, its phase included, unchanged
C17_ProposeFrame ==
    ret.op = "propose" =>
        IF ret.before.phase = PhaseInit /\ ret.id = TheView.leader
        THEN /\ ret.out = <<ConsensusMessage(ret.before.tbo.curr_seq, "PrePrepare", ret.digests)>>
             /\ cons[ret.id] = [ret.before EXCEPT !.phase = PhasePrePreparing]
        ELSE /\ ret.out = <<>>
             /\ cons[ret.id] = ret.before

\* propose on a replica that is not the leader, in Init, has broadcast
\* nothing and has moved the replica to PrePreparing
C17_NonLeaderMoved ==
    /\ ret.op = "propose"
    /\ ret.id # TheView.leader
    /\ ret.before.phase = PhaseInit
    /\ ret.out = <<>>
    /\ cons[ret.id] = [ret.before EXCEPT !.phase = PhasePrePreparing]

(***************************************************************************)
(* Claims checked under SpecCons                                           *)
(***************************************************************************)
\* the step is a process_message of replica 1 on a message it counts
ConsAccepting(kind) ==
    /\ ret'.op = "process_message"
    /\ ret'.message.kind = kind
    /\ ConsCounted(cons[TboReplica], ret'.message)

RangeOf(seq) == {seq[i] : i \in 1..Len(seq)}

C21_AcceptStep ==
    ConsAccepting("PrePrepare") =>
        LET missing == {d \in RangeOf(ret'.message.digests) :
                            ~LogHasRequest(logs'[TboReplica], d)}
        IN  /\ RangeOf(cons'[TboReplica].missing_requests) = missing
            /\ cons'[TboReplica].phase =
                   IF missing = {} THEN PhasePreparing(0) ELSE PhasePreparingRequests

\* C21: on accepting the PrePrepare(digests) of the current sequence number
\* in PrePreparing, for every batch length up to the maximum batch size and
\* in every instance, missing_requests becomes the set of the digests of the
\* batch that the log does not hold, and the phase becomes Preparing(0) if
\* that set is empty and PreparingRequests otherwise
C21_MissingRequests == [][C21_AcceptStep]_vars

\* a batch of one request that the log holds was accepted, with a maximum
\* batch size of two: the digest of zeros is missing, and the phase is
\* PreparingRequests
C21_ZeroDigestMissing ==
    /\ ret.op = "process_message"
    /\ ret.message.kind = "PrePrepare" /\ ret.message.digests = <<1>>
    /\ LogHasRequest(logs[TboReplica], 1)
    /\ cons[TboReplica].missing_requests = <<ZeroDigest>>
    /\ cons[TboReplica].phase = PhasePreparingRequests

\* the step is a poll of replica 1
ConsPolling == ret'.op = "poll"

C22_PollInitStep ==
    (/\ ConsPolling
     /\ cons[TboReplica].phase = PhaseInit
     /\ cons[TboReplica].tbo.get_queue) =>
        LET buffered == SlotZero(cons[TboReplica], "pre_prepares")
        IN  IF Len(buffered) > 0
            THEN /\ cons'[TboReplica].phase = PhasePrePreparing
                 /\ ret'.status = PollNextMessage(Head(buffered))
            ELSE /\ cons'[TboReplica].phase = PhaseInit
                 /\ ret'.status = PollTryProposeAndRecv

\* C22: poll in Init with the queue signalled: with a PrePrepare buffered for
\* the current sequence number the phase becomes PrePreparing and poll yields
\* NextMessage with it; with none buffered poll yields TryProposeAndRecv and
\* the phase stays Init
C22_PollInit == [][C22_PollInitStep]_vars

\* a poll in Init has yielded Recv: the queue was signalled and held no
\* PrePrepare of the current sequence number
C22_InitYieldedRecv ==
    /\ ret.op = "poll"
    /\ ret.status = PollRecv
    /\ cons[TboReplica].phase = PhaseInit
    /\ ~cons[TboReplica].tbo.get_queue
    /\ SlotZero(cons[TboReplica], "pre_prepares") = <<>>

C23_PollPreparingRequestsStep ==
    (/\ ConsPolling
     /\ cons[TboReplica].phase = PhasePreparingRequests
     /\ cons'[TboReplica].missing_requests = <<>>) =>
        LET buffered == SlotZero(cons[TboReplica], "prepares")
        IN  /\ cons'[TboReplica].phase = PhasePreparing(0)
            /\ ret'.status = IF Len(buffered) > 0
                             THEN PollNextMessage(Head(buffered))
                             ELSE PollRecv

\* C23: poll in PreparingRequests, when no request is missing after the scan:
\* the phase becomes Preparing(0), with or without a Prepare buffered for the
\* current sequence number, and poll yields the buffered Prepare as
\* NextMessage if there is one and Recv otherwise
C23_PollPreparingRequests == [][C23_PollPreparingRequestsStep]_vars

\* a poll in PreparingRequests has found no request missing and no Prepare
\* buffered: it yielded Recv and the phase is still PreparingRequests
C23_StillPreparingRequests ==
    /\ ret.op = "poll"
    /\ ret.status = PollRecv
    /\ cons[TboReplica].phase = PhasePreparingRequests
    /\ cons[TboReplica].missing_requests = <<>>

C24_ScanStep ==
    (/\ ConsPolling
     /\ cons[TboReplica].phase = PhasePreparingRequests) =>
        RangeOf(cons'[TboReplica].missing_requests) =
            {d \in RangeOf(cons[TboReplica].missing_requests) :
                 ~LogHasRequest(logs'[TboReplica], d)}

\* C24: poll in PreparingRequests drops every satisfied request in one call:
\* afterwards missing_requests holds exactly the digests that were missing
\* before and that the log still does not hold, for every size of
\* missing_requests and every subset of satisfied digests
C24_DropsEverySatisfied == [][C24_ScanStep]_vars

\* a poll in PreparingRequests has left in missing_requests a digest the log
\* holds
C24_SatisfiedLeft ==
    /\ ret.op = "poll"
    /\ cons[TboReplica].phase = PhasePreparingRequests
    /\ \E d \in RangeOf(cons[TboReplica].missing_requests) :
           LogHasRequest(logs[TboReplica], d)

\* a phase buffer without its first limit slots (empty when it has at most
\* limit slots)
WithoutSlots(tbo, limit) == SubSeq(tbo, limit + 1, Len(tbo))

C27_InstallStep ==
    ret'.op = "install_sequence_number" =>
        LET c == cons[TboReplica]
            ix == SeqNoIndex(ret'.seq, SequenceNumber(c))
        IN  IF ix = Right(0) THEN ret'.ok /\ cons' = cons
            ELSE ix.tag = "Right" =>
                     /\ ret'.ok
                     /\ cons'[TboReplica] =
                            [c EXCEPT !.tbo.pre_prepares = WithoutSlots(@, ix.idx),
                                      !.tbo.prepares = WithoutSlots(@, ix.idx),
                                      !.tbo.commits = WithoutSlots(@, ix.idx),
                                      !.tbo.curr_seq = ret'.seq,
                                      !.phase = PhaseInit]

\* C27: install_sequence_number(seq), for seq ahead of curr_seq by limit > 0
\* and for every combination of lengths of the three phase buffers, completes
\* without failure, removes from each phase buffer exactly its first limit
\* slots (all of them when it has at most limit), so keeps every buffered
\* message of sequence number seq or later, and sets curr_seq = seq and the
\* phase to Init; with seq equal to curr_seq it changes nothing
C27_InstallSequenceNumber == [][C27_InstallStep]_vars

\* install_sequence_number(seq) has failed: seq is ahead of curr_seq by a
\* limit below the length of pre_prepares and above the length of prepares
\* or of commits
C27_DrainOutOfRange ==
    /\ ret.op = "install_sequence_number"
    /\ ~ret.ok
    /\ LET tbo == cons[TboReplica].tbo
           ix == SeqNoIndex(ret.seq, tbo.curr_seq)
       IN  /\ ix.tag = "Right" /\ ix.idx > 0
           /\ ix.idx < Len(tbo.pre_prepares)
           /\ ix.idx > Len(tbo.prepares) \/ ix.idx > Len(tbo.commits)

\* every message of slot j (1-based) of buffer b has the sequence number
\* j - 1 instances after curr_seq and the kind of b
SlotHolds(q, b, j) ==
    \A k \in 1..Len(q[b][j]) :
        /\ q[b][j][k].message.seq = SeqAhead(q.curr_seq, j - 1)
        /\ BufferOf(q[b][j][k].message.kind) = b

C28_SlotsHold ==
    \A b \in TboBuffers : \A j \in 1..Len(cons[TboReplica].tbo[b]) :
        SlotHolds(cons[TboReplica].tbo, b, j)

C28_NextInstanceStep ==
    ret'.op = "next_instance" =>
        LET q == cons[TboReplica].tbo
            q2 == cons'[TboReplica].tbo
        IN  /\ q2.curr_seq = SeqAhead(q.curr_seq, 1)
            /\ \A b \in TboBuffers : \A j \in 1..(Len(q[b]) + Len(q2[b]) + 1) :
                   SlotOf(q2[b], j) = SlotOf(q[b], j + 1)

C29_NotCountedStep ==
    (/\ ret'.op = "process_message"
     /\ ~ConsCounted(cons[TboReplica], ret'.message)) =>
        LET c == cons[TboReplica]
            c2 == cons'[TboReplica]
            m == ret'.message
            b == BufferOf(m.kind)
            ix == SeqNoIndex(m.seq, c.tbo.curr_seq)
        IN  /\ ret'.status = StatusDeciding
            /\ ret'.out = <<>>
            /\ c2.phase = c.phase
            /\ c2.current = c.current /\ c2.batch_size = c.batch_size
            /\ c2.missing_requests = c.missing_requests
            /\ logs' = logs
            /\ c2.tbo.curr_seq = c.tbo.curr_seq /\ c2.tbo.get_queue = c.tbo.get_queue
            /\ \A o \in TboBuffers \ {b} : c2.tbo[o] = c.tbo[o]
            /\ \A j \in 1..(Len(c.tbo[b]) + Len(c2.tbo[b]) + 1) :
                   SlotOf(c2.tbo[b], j) =
                       IF ix.tag = "Right" /\ j = ix.idx + 1
                       THEN Append(SlotOf(c.tbo[b], j), Stored(ret'.header, m))
                       ELSE SlotOf(c.tbo[b], j)

\* C29: process_message on a message whose sequence number is not curr_seq,
\* or whose kind is not the one the current phase counts, surfaces no error:
\* it queues the message in the buffer of its kind (or drops it when it is
\* outside the window), returns Deciding, broadcasts nothing, and leaves the
\* phase, the vote counter, the current batch and the log unchanged
C29_NotCountedIsQueued == [][C29_NotCountedStep]_vars

\* in Preparing, process_message was given a Prepare of the next sequence
\* number: it is buffered in slot 1 of prepares and was not counted
C29_PrepareAheadQueued ==
    /\ ret.op = "process_message"
    /\ ret.message.kind = "Prepare"
    /\ ret.message.seq = SeqAhead(SequenceNumber(cons[TboReplica]), 1)
    /\ cons[TboReplica].phase.name = "Preparing"
    /\ ret.status = StatusDeciding
    /\ SlotOf(cons[TboReplica].tbo.prepares, 2) = <<Stored(ret.header, ret.message)>>

\* the phases the phase p may be followed by, without a reset
PhasesAfter(p, quorum) ==
    IF p.name = "Init" THEN {PhasePrePreparing}
    ELSE IF p.name = "PrePreparing" THEN {PhasePreparingRequests, PhasePreparing(0)}
    ELSE IF p.name = "PreparingRequests" THEN {PhasePreparing(0)}
    ELSE IF p.name = "Preparing"
    THEN {IF p.i + 1 = quorum THEN PhaseCommitting(0) ELSE PhasePreparing(p.i + 1)}
    ELSE {IF p.i + 1 = quorum THEN PhaseInit ELSE PhaseCommitting(p.i + 1)}

C30_PhaseStep ==
    LET p == cons[TboReplica].phase
        p2 == cons'[TboReplica].phase
    IN  /\ \/ p2 = p
           \/ p2 \in PhasesAfter(p, Quorum(TheView))
           \/ /\ ret'.op \in {"install_sequence_number", "install_new_phase"}
              /\ p2 = PhaseInit
        /\ (ConsAccepting("Prepare") \/ ConsAccepting("Commit")) =>
               p2 \in PhasesAfter(p, Quorum(TheView))
        /\ (p.name \in {"Preparing", "Committing"} /\ p2 # p /\ p2.name = p.name) =>
               ConsAccepting("Prepare") \/ ConsAccepting("Commit")

C30_CounterBelowQuorum ==
    /\ cons[TboReplica].phase.i \in 0..(Quorum(TheView) - 1)
    /\ Quorum(TheView) = 2 * TheView.f + 1

\* C30: the phase only moves Init -> PrePreparing -> (PreparingRequests ->)
\* Preparing(k) -> Committing(k) -> Init, install_sequence_number and
\* install_new_phase resetting any phase to Init; the counter k starts at 0,
\* grows by exactly one per accepted vote of the current sequence number, and
\* is below quorum = 2f+1 in every reachable state
C30_PhaseProgression == [](C30_CounterBelowQuorum) /\ [][C30_PhaseStep]_vars

\* the quorum-th Commit of the current sequence number was accepted: the
\* batch is decided and the phase is Init again
C30_DecidedBackToInit ==
    /\ ret.op = "process_message"
    /\ ret.message.kind = "Commit"
    /\ ret.status.tag = "Decided"
    /\ cons[TboReplica].phase = PhaseInit

(***************************************************************************)
(* Claims checked under SpecCkpt                                           *)
(***************************************************************************)
LastOf(seq) == seq[Len(seq)]

C25_FinalizeCheckpointStep ==
    (/\ ret'.op = "finalize_checkpoint"
     /\ CheckpointKind(CkptReplica) \in {"Partial", "PartialWithEarlier"}) =>
        LET log == logs[CkptReplica]
            log2 == logs'[CkptReplica]
            pp == log.declog.pre_prepares
        IN  /\ ret'.ok
            /\ log2.checkpoint =
                   CheckpointComplete(Checkpoint(log.checkpoint.seq, ret'.appstate))
            /\ log2.decided = <<>>
            /\ log2.declog.prepares = <<>> /\ log2.declog.commits = <<>>
            /\ IF Len(pp) > 0
               THEN /\ log2.curr_seq = LastOf(pp).message.seq
                    /\ Len(log2.declog.pre_prepares) > 0
                    /\ LastOf(log2.declog.pre_prepares) = LastOf(pp)
               ELSE /\ log2.curr_seq = log.curr_seq
                    /\ log2.declog.pre_prepares = pp

\* C25: finalize_checkpoint(appstate) in Partial or PartialWithEarlier sets
\* the checkpoint to Complete(seq of the begin, appstate), clears decided,
\* prepares and commits, sets curr_seq to the sequence number of the last
\* stored PrePrepare, and keeps that last PrePrepare in declog.pre_prepares;
\* with no stored PrePrepare, pre_prepares and curr_seq are unchanged
C25_FinalizeCheckpoint == [][C25_FinalizeCheckpointStep]_vars

\* finalize_checkpoint has completed a checkpoint with a PrePrepare stored
\* (curr_seq is its sequence number), and pre_prepares is empty
C25_LastPrePrepareGone ==
    /\ ret.op = "finalize_checkpoint" /\ ret.ok
    /\ CheckpointKind(CkptReplica) = "Complete"
    /\ logs[CkptReplica].curr_seq \in {PERIOD, 2 * PERIOD}
    /\ logs[CkptReplica].declog.pre_prepares = <<>>
    /\ hist.finalizes = 1

C26_LifecycleStep ==
    LET c == logs[CkptReplica].checkpoint
        c2 == logs'[CkptReplica].checkpoint
    IN  /\ c2 # c =>
               \/ /\ ret'.op = "finalize_batch"
                  /\ c.kind = "None" /\ c2.kind = "Partial"
               \/ /\ ret'.op = "finalize_batch"
                  /\ c.kind = "Complete" /\ c2.kind = "PartialWithEarlier"
                  /\ c2.earlier = c.checkpoint
               \/ /\ ret'.op = "finalize_checkpoint"
                  /\ c.kind \in {"Partial", "PartialWithEarlier"}
                  /\ c2.kind = "Complete"
        /\ (ret'.op = "finalize_checkpoint" /\ c.kind \in {"None", "Complete"}) =>
               ~ret'.ok
        /\ (ret'.op \in {"finalize_batch", "finalize_checkpoint"} /\ ~ret'.ok) =>
               c2 = c

\* C26: the checkpoint state changes only along None -> Partial and
\* Complete -> PartialWithEarlier (begin) and Partial | PartialWithEarlier ->
\* Complete (finalize_checkpoint); every other attempt, finalize_checkpoint
\* in None or Complete or a begin while a checkpoint is Partial or
\* PartialWithEarlier, returns a Log error and leaves the checkpoint state,
\* a saved earlier checkpoint included, unchanged
C26_CheckpointLifecycle == [][C26_LifecycleStep]_vars

\* a finalize_batch that begun a checkpoint while one was begun has failed,
\* and the checkpoint state is None: the earlier checkpoint, completed
\* before, is lost
C26_EarlierCheckpointLost ==
    /\ ret.op = "finalize_batch" /\ ~ret.ok
    /\ CheckpointKind(CkptReplica) = "None"
    /\ hist.finalizes >= 1
    /\ logs[CkptReplica].curr_seq \in {PERIOD, 2 * PERIOD}

(***************************************************************************)
(* Claims checked under SpecIndex                                          *)
(***************************************************************************)
\* the steps from other forward to self in the cyclic sequence space
\* 0..i32::MAX
StepsAhead(self, other) ==
    IF self >= other THEN self - other ELSE (self + 1) + (I32_MAX - other)

\* the steps from self forward to other
StepsBehind(self, other) == StepsAhead(other, self)

\* C31: a.index(b) is Right(d) exactly when a is d steps ahead of b in the
\* cyclic sequence space with 0 <= d <= DROP_SEQNO_THRES; it is Left(Small)
\* when a is behind b and Left(Big) when a is more than DROP_SEQNO_THRES
\* ahead of b, whatever the distance, distances above OVERFLOW_THRES_POS and
\* pairs on both sides of the wrap at i32::MAX included
C31_IndexClassification ==
    ret.op = "index" =>
        LET ahead == StepsAhead(hist.self, hist.other)
        IN  ret.result =
                IF ahead <= DROP_SEQNO_THRES THEN Right(ahead)
                ELSE IF ahead < StepsBehind(hist.self, hist.other) THEN Left("Big")
                ELSE Left("Small")

\* a sequence number 2 * OVERFLOW_THRES_POS steps ahead of the other, with no
\* wrap between them, has the index Left(Small)
C31_FarAheadIsSmall ==
    /\ ret.op = "index"
    /\ hist.other = 0 /\ hist.self = 2 * OVERFLOW_THRES_POS
    /\ ret.result = Left("Small")

(***************************************************************************)
(* Claims checked under SpecBatch                                          *)
(***************************************************************************)
C32_NextBatchStep ==
    ret'.op = "next_batch" =>
        LET log == logs[BatchReplica]
            log2 == logs'[BatchReplica]
        IN  IF Len(log.requests) = 0
            THEN ~ret'.some /\ log2 = log
            ELSE LET oldest == Head(log.requests)
                 IN  /\ log2.requests = Tail(log.requests)
                     /\ DOMAIN log2.deciding = DOMAIN log.deciding \cup {oldest.digest}
                     /\ log2.deciding[oldest.digest] = oldest
                     /\ \A d \in DOMAIN log.deciding \ {oldest.digest} :
                            log2.deciding[d] = log.deciding[d]
                     /\ log2.decided = log.decided /\ log2.declog = log.declog
                     /\ ret'.some = (Cardinality(DOMAIN log2.deciding) >= log2.batch_size)
                     /\ ret'.batch \subseteq DOMAIN log2.deciding
                     /\ Cardinality(ret'.batch) <= log2.batch_size
                     /\ ~ret'.some => ret'.batch = {}

\* C32: next_batch moves the oldest pending request, in arrival order, from
\* requests to deciding and returns Some(batch) whenever deciding then holds
\* at least batch_size requests, the batch having at most batch_size distinct
\* digests, all of them in deciding; it returns None otherwise; with no
\* request pending it returns None and leaves the log unchanged
C32_NextBatch == [][C32_NextBatchStep]_vars

\* next_batch has returned a batch of batch_size digests out of the three
\* requests in deciding, with a request still pending
C32_BatchOfDeciding ==
    /\ ret.op = "next_batch" /\ ret.some
    /\ Cardinality(ret.batch) = logs[BatchReplica].batch_size
    /\ Cardinality(DOMAIN logs[BatchReplica].deciding) = 3
    /\ Len(logs[BatchReplica].requests) > 0

\* the stored request finalize_batch takes for digest d: the one in deciding,
\* or else the one in requests
TakenFor(log, d) ==
    IF d \in DOMAIN log.deciding THEN log.deciding[d] ELSE OrderedMapGet(log.requests, d)

C33_FinalizeBatchStep ==
    (/\ ret'.op = "finalize_batch"
     /\ \A i \in 1..Len(ret'.digests) : LogHasRequest(logs[BatchReplica], ret'.digests[i])) =>
        LET log == logs[BatchReplica]
            log2 == logs'[BatchReplica]
            digests == ret'.digests
        IN  /\ ret'.ok
            /\ Len(ret'.batch) = Len(digests)
            /\ \A i \in 1..Len(digests) :
                   ret'.batch[i] = [from |-> TakenFor(log, digests[i]).from,
                                    digest |-> digests[i],
                                    operation |-> TakenFor(log, digests[i]).operation]
            /\ log2.decided =
                   log.decided \o [i \in 1..Len(digests) |-> ret'.batch[i].operation]
            /\ DOMAIN log2.deciding = DOMAIN log.deciding \ RangeOf(digests)
            /\ log2.requests =
                   SelectSeq(log.requests,
                             LAMBDA e : \/ e.digest \notin RangeOf(digests)
                                        \/ e.digest \in DOMAIN log.deciding)

C34_FailedStep ==
    (ret'.op = "finalize_batch" /\ ~ret'.ok) =>
        /\ logs'[BatchReplica].requests = logs[BatchReplica].requests
        /\ logs'[BatchReplica].deciding = logs[BatchReplica].deciding
        /\ logs'[BatchReplica].decided = logs[BatchReplica].decided
        /\ logs'[BatchReplica].checkpoint = logs[BatchReplica].checkpoint

\* C34: finalize_batch is atomic on failure: when some digest of the batch
\* is held neither in deciding nor in requests, it returns a Log error and
\* leaves requests, deciding, decided and the checkpoint state as they were
\* before the call
C34_AtomicOnFailure == [][C34_FailedStep]_vars

\* finalize_batch has failed on its second digest, and the request of its
\* first digest, inserted before, is no longer in the log nor in decided
C34_RequestLost ==
    /\ ret.op = "finalize_batch" /\ ~ret.ok
    /\ Len(ret.digests) = 2
    /\ hist.requests = 1 /\ hist.finalizes = 1
    /\ ~LogHasRequest(logs[BatchReplica], ret.digests[1])
    /\ logs[BatchReplica].decided = <<>>

C35_NoDigestTwice ==
    \A d \in DOMAIN logs[BatchReplica].deciding :
        ~OrderedMapContainsKey(logs[BatchReplica].requests, d)

C35_FinalizedStep ==
    (ret'.op = "finalize_batch" /\ ret'.ok) =>
        \A i \in 1..Len(ret'.digests) :
            ~LogHasRequest(logs'[BatchReplica], ret'.digests[i])

\* C35: in every reachable state no digest is held in both requests and
\* deciding, so that after finalize_batch(digests) has_request(d) is false
\* for every d of the batch, also when a request of the same digest is
\* inserted again while the first is in deciding
C35_AtMostOnce == [](C35_NoDigestTwice) /\ [][C35_FinalizedStep]_vars

\* a batch was finalized and the log still holds a request of one of its
\* digests, inserted while the first was in deciding
C35_HeldAfterFinalize ==
    /\ ret.op = "finalize_batch" /\ ret.ok
    /\ \E i \in 1..Len(ret.digests) :
           OrderedMapContainsKey(logs[BatchReplica].requests, ret.digests[i])

(***************************************************************************)
(* Claims checked under SpecSnap                                           *)
(***************************************************************************)
\* both replicas have decided the instance and taken their snapshot
SnapBothDone == \A r \in SnapReplicas : hist[r].pc = "done"

\* C36: two correct replicas that hold the same Complete checkpoint and have
\* decided the same batches since it produce equal recovery states, the same
\* decided operations and the same decision log, whatever the order in
\* which each of them received and processed the Prepare and Commit
\* messages
C36_SnapshotDeterminism ==
    SnapBothDone => \A r, q \in SnapReplicas : hist[r].rs = hist[q].rs

\* the two replicas hold the same checkpoint and the same decided
\* operations, have stored the Prepares of the same voters, and their
\* recovery states differ in the order of the Prepares
C36_DecisionLogsDiffer ==
    /\ SnapBothDone
    /\ hist[1].rs.checkpoint = hist[2].rs.checkpoint
    /\ hist[1].rs.requests = hist[2].rs.requests
    /\ RangeOf(hist[1].rs.declog.prepares) = RangeOf(hist[2].rs.declog.prepares)
    /\ hist[1].rs.declog.prepares # hist[2].rs.declog.prepares

\* the request handed to process_message is answered to its sender with its
\* own cst seq by the messages sent, or is the request parked
ServeAnswered(from, m, out) ==
    \E i \in 1..Len(out) :
        /\ out[i].to = from
        /\ out[i].message.seq = m.seq
        /\ out[i].message.kind =
               (IF m.kind = "RequestState" THEN "ReplyState"
                ELSE "ReplyLatestConsensusSeq")

ServeParked(cs, from, m) ==
    /\ cs.phase.name = "WaitingCheckpoint"
    /\ cs.phase.waiting[1] = Stored(CstHeader(from, m), m)

C37_ServeStep ==
    (ret'.op = "process_message" /\ ret'.progress = "Message") =>
        \/ ServeAnswered(ret'.from, ret'.message, ret'.out)
        \/ /\ ret'.message.kind = "RequestState"
           /\ logs[ServeReplica].checkpoint.kind # "Complete"
           /\ ServeParked(cst'[ServeReplica], ret'.from, ret'.message)

\* C37: every RequestLatestConsensusSeq or RequestState handed to a replica
\* that is not recovering is answered to its sender with the request's cst
\* seq at once, or, for a RequestState received while the checkpoint is not
\* Complete, is parked to be answered when the checkpoint completes, also
\* when another RequestState is parked in WaitingCheckpoint
C37_NoRequestLost == [][C37_ServeStep]_vars

\* a request of peer 3 has been handed over while the RequestState of peer 2
\* was parked: nothing was sent to peer 3 and the parked request is still
\* that of peer 2
C37_RequestDropped ==
    /\ ret.op = "process_message" /\ ret.progress = "Message"
    /\ ret.before.name = "WaitingCheckpoint"
    /\ ret.before.waiting[1].header.from = 2
    /\ ret.from = 3
    /\ ret.message.kind = "RequestLatestConsensusSeq"
    /\ ~ServeAnswered(ret.from, ret.message, ret.out)
    /\ ~ServeParked(cst[ServeReplica], ret.from, ret.message)
    /\ hist.served = 2

\* C39: missing_requests is empty in every reachable state whose phase is
\* not PreparingRequests; after install_sequence_number or install_new_phase
\* has reset the phase to Init no digest of an abandoned instance remains
C39_MissingRequestsCleared ==
    cons[TboReplica].phase.name # "PreparingRequests" =>
        cons[TboReplica].missing_requests = <<>>

\* install_sequence_number has abandoned an instance that waited for
\* requests in PreparingRequests: the phase is Init and the digests it
\* waited for are still in missing_requests
C39_AbandonedDigestsRemain ==
    /\ ret.op = "install_sequence_number" /\ ret.ok
    /\ hist.accepted > 0
    /\ cons[TboReplica].phase = PhaseInit
    /\ cons[TboReplica].missing_requests # <<>>

\* the messages on the system channel are in the order in which their
\* batches were executed
ExecInOrder ==
    \A i, j \in 1..Len(hist.system) :
        i < j => hist.system[i].n < hist.system[j].n

\* a message carries one reply per update of its batch, in batch order
ExecRepliesOfBatch(m) ==
    /\ Len(m.replies) = Len(m.batch)
    /\ \A k \in 1..Len(m.batch) :
           /\ m.replies[k].to = m.batch[k].from
           /\ m.replies[k].digest = m.batch[k].digest

\* the operations of the batches executed up to the n-th
RECURSIVE ExecAppliedUpTo(_, _)
ExecAppliedUpTo(msgs, n) ==
    IF msgs = {} THEN 0
    ELSE LET m == CHOOSE x \in msgs : TRUE
         IN  (IF m.n <= n THEN Len(m.batch) ELSE 0)
                 + ExecAppliedUpTo(msgs \ {m}, n)

\* the app state of the message is the state right after its own batch
ExecAppstateOfBatch(m) ==
    m.kind = "ExecutionFinishedWithAppstate" =>
        m.appstate = ExecAppliedUpTo(RangeOf(hist.system) \cup hist.spawned, m.n)

\* C38: the ExecutionFinished and ExecutionFinishedWithAppstate messages are
\* on the system channel in the order in which their batches were queued
\* and executed, each with one reply per update of its batch in batch
\* order, and the app state of ExecutionFinishedWithAppstate is the state
\* right after its own batch
C38_ExecutionOrder ==
    /\ ExecInOrder
    /\ \A i \in 1..Len(hist.system) :
           /\ ExecRepliesOfBatch(hist.system[i])
           /\ ExecAppstateOfBatch(hist.system[i])

\* the result of the second batch executed is on the system channel before
\* that of the first
C38_LaterBatchFirst ==
    /\ Len(hist.system) = 2
    /\ hist.system[1].n = 2
    /\ hist.system[2].n = 1

\* the replies and the app state of every message posted are those of its
\* own batch
C38_RepliesAndAppstate ==
    \A i \in 1..Len(hist.system) :
        /\ ExecRepliesOfBatch(hist.system[i])
        /\ ExecAppstateOfBatch(hist.system[i])

\* the messages that the task of the connection conn has sent, in the order
\* of the inbound channel
RECURSIVE ReaderOf(_, _)
ReaderOf(inbound, conn) ==
    IF inbound = <<>> THEN <<>>
    ELSE (IF inbound[1].conn = conn THEN <<inbound[1].m>> ELSE <<>>)
             \o ReaderOf(Tail(inbound), conn)

\* the messages of the connection are the frames written on it, in the
\* order written, up to the first error, and then DisconnectedRx(Some(peer))
\* once, as the last of them, when the task has announced
ReaderDelivered(conn) ==
    LET posted == ReaderOf(net.inbound, conn)
        frames == ReaderSystemOf(conn)
        done == net.task[conn].pc = "done"
    IN  /\ frames <= Len(net.written[conn])
        /\ Len(posted) = frames + (IF done THEN 1 ELSE 0)
        /\ \A i \in 1..frames :
               /\ posted[i] = BootMessage("System", ReaderPeer(conn),
                                          net.written[conn][i].header)
               /\ net.written[conn][i].valid
        /\ done => posted[Len(posted)] =
                       BootMessage("DisconnectedRx", ReaderPeer(conn), "none")
        /\ hist[conn] # -1 => frames = hist[conn]
        /\ done => hist[conn] # -1

\* C40: the reader task of a connection posts the frames it reads as System
\* messages in the order they were written on the connection; on the first
\* read or deserialize error it posts DisconnectedRx(Some(peer)) once,
\* after all earlier frames, and nothing from the connection afterwards
C40_PerConnectionDelivery == \A conn \in ReaderConns : ReaderDelivered(conn)

\* connection 1 delivered two frames and failed to deserialize the third,
\* with messages of connection 2 in between, and has announced; a frame
\* written on connection 2 after its error is not posted
C40_Witness ==
    /\ net.task[1].pc = "done"
    /\ hist[1] = 2
    /\ Len(net.written[1]) = 3 /\ ~net.written[1][3].valid
    /\ net.task[2].pc = "done"
    /\ hist[2] = 1
    /\ Len(net.written[2]) = 3
    /\ net.inbound[1].conn = 1 /\ net.inbound[2].conn = 2
    /\ net.inbound[3].conn = 1

====
